---- MODULE Spec2Model ----
(***************************************************************************)
(* Tagged JSON serializer of flask-1.0 (flask/json/tag.py).                *)
(*                                                                         *)
(* A TaggedJSONSerializer owns `tags` (discriminator -> tag instance) and  *)
(* `order` (the list of tag instances scanned by tag()).  Python values    *)
(* are modelled as uniform tree nodes [type, s, n, items]; text is a       *)
(* sequence of one-character strings so that key + '__' and key[:-2] are   *)
(* computed as the code computes them.                                     *)
(***************************************************************************)
EXTENDS Integers, Sequences, FiniteSets, TLC

(***************************************************************************)
(* Bounds of the model.                                                    *)
(***************************************************************************)
\* number of register() calls made after construction
MaxRegs == 2

(***************************************************************************)
(* Python values.                                                          *)
(*   type  : the Python type                                               *)
(*   s     : text content (str, Markup, UUID hex, datetime, entry key)     *)
(*   n     : numeric content (int, bool as 0/1, the bytes of a bytes)      *)
(*   items : children (list/tuple elements, dict entries, entry value)     *)
(***************************************************************************)
Node(t, s, n, items) == [type |-> t, s |-> s, n |-> n, items |-> items]

PyNone == Node("none", <<>>, <<>>, <<>>)
PyBool(b) == Node("bool", <<>>, <<IF b THEN 1 ELSE 0>>, <<>>)
PyInt(i) == Node("int", <<>>, <<i>>, <<>>)
PyStr(s) == Node("str", s, <<>>, <<>>)
PyBytes(bs) == Node("bytes", <<>>, bs, <<>>)
PyList(items) == Node("list", <<>>, <<>>, items)
PyTuple(items) == Node("tuple", <<>>, <<>>, items)
\* a dict is the sequence of its entries in insertion order (keys distinct)
Entry(k, v) == Node("entry", k, <<>>, <<v>>)
PyDict(entries) == Node("dict", <<>>, <<>>, entries)
PyODict(entries) == Node("odict", <<>>, <<>>, entries)
PyMarkup(s) == Node("markup", s, <<>>, <<>>)
PyUUID(hex) == Node("uuid", hex, <<>>, <<>>)
\* a datetime: its HTTP-date text (whole seconds, UTC) and its microseconds
PyDateTime(s, us) == Node("datetime", s, <<us>>, <<>>)

\* isinstance(value, dict): OrderedDict is a subclass of dict
IsDict(v) == v.type \in {"dict", "odict"}

EntryKey(e) == e.s
EntryValue(e) == e.items[1]

(***************************************************************************)
(* Outcome of a call: a returned value, or the exception it raised.        *)
(***************************************************************************)
Ok(v) == [err |-> "none", val |-> v]
Raise(e) == [err |-> e, val |-> PyNone]

\* the first raised exception among a sequence of outcomes, if any
FirstError(rs) ==
    LET bad == {i \in 1..Len(rs) : rs[i].err # "none"}
    IN  IF bad = {} THEN "none"
        ELSE rs[CHOOSE i \in bad : \A j \in bad : i <= j].err

(***************************************************************************)
(* Discriminators.                                                         *)
(***************************************************************************)
K_di == <<" ", "d", "i">>
K_t == <<" ", "t">>
K_b == <<" ", "b">>
K_m == <<" ", "m">>
K_u == <<" ", "u">>
K_d == <<" ", "d">>
K_od == <<" ", "o", "d">>
Suffix == <<"_", "_">>

\* key[:-2]
DropLast2(k) == IF Len(k) <= 2 THEN <<>> ELSE SubSeq(k, 1, Len(k) - 2)

(***************************************************************************)
(* Tag classes: `key` is the class attribute, keyed = (key is not None).   *)
(***************************************************************************)
Class(name, keyed, key) == [name |-> name, keyed |-> keyed, key |-> key]

TagDict == Class("TagDict", TRUE, K_di)
PassDict == Class("PassDict", FALSE, <<>>)
TagTuple == Class("TagTuple", TRUE, K_t)
PassList == Class("PassList", FALSE, <<>>)
TagBytes == Class("TagBytes", TRUE, K_b)
TagMarkup == Class("TagMarkup", TRUE, K_m)
TagUUID == Class("TagUUID", TRUE, K_u)
TagDateTime == Class("TagDateTime", TRUE, K_d)

\* the example of the module docstring, subclassed with other values of `key`
TagOrderedDict(key) == Class("TagOrderedDict", TRUE, key)

\* a second tag an application writes for OrderedDict: to_json is the
\* mapping {k: tag(v)}, to_python is OrderedDict(value.items())
TagItemsDict(key) == Class("TagItemsDict", TRUE, key)

\* the default tags with each transparent tag in front of the tag it shadows
default_tags_TransparentFirst ==
    <<PassDict, TagDict, PassList, TagTuple, TagBytes, TagMarkup, TagUUID,
      TagDateTime>>

\* TaggedJSONSerializer.default_tags
default_tags ==
    <<TagDict, PassDict, TagTuple, PassList, TagBytes, TagMarkup, TagUUID,
      TagDateTime>>

(***************************************************************************)
(* The serializer (registry).  A tag instance is identified by `id`, the   *)
(* number of instances bound to the serializer when it was created.        *)
(***************************************************************************)
VARIABLES
    tags,   \* self.tags : discriminator -> tag instance
    order,  \* self.order : sequence of tag instances
    op,     \* the call whose outcome the caller holds, "idle" between calls
    reg,    \* arguments of the last register call
    arg,    \* argument of the last tag / untag / dumps / loads call
    src,    \* for loads of a text produced by dumps: the value dumped
    out,    \* outcome of the last call
    calls,  \* the encode / decode calls running concurrently, by caller
    closed, \* the application has stopped registering tags
    static_folder,          \* Blueprint.static_folder is not None
    deferred_functions,     \* Blueprint.deferred_functions
    got_registered_once,    \* Blueprint._got_registered_once
    registered,             \* number of setup states the blueprint has made
    url_rules,              \* rules added to the application through a state
    invoked,                \* the deferred functions called so far, in order
    config,                 \* a Config: key -> value
    mapped,                 \* the last from_mapping call and its outcome
    _request_ctx_stack,     \* globals._request_ctx_stack, top last
    _app_ctx_stack,         \* globals._app_ctx_stack, top last
    pushed,                 \* number of contexts made so far
    looked                  \* the last context lookup and its outcome

caller_vars == <<calls, closed>>
blueprint_vars ==
    <<static_folder, deferred_functions, got_registered_once, registered,
      url_rules, invoked>>
config_vars == <<config, mapped>>
context_vars == <<_request_ctx_stack, _app_ctx_stack, pushed, looked>>
vars ==
    <<tags, order, op, reg, arg, src, out, caller_vars, blueprint_vars,
      config_vars, context_vars>>

\* the serializer object as the methods see it
self == [tags |-> tags, order |-> order]

\* index=None, or index=i
NoIndex == [given |-> FALSE, at |-> 0]
Index(i) == [given |-> TRUE, at |-> i]

\* an insert that takes a negative index for the front of the list
ListInsert_NegativeIsFront(lst, index, x) ==
    LET i == IF index < 0 THEN 0 ELSE IF index > Len(lst) THEN Len(lst) ELSE index
    IN  SubSeq(lst, 1, i) \o <<x>> \o SubSeq(lst, i + 1, Len(lst))

\* list.insert(index, x): a negative index counts from the end, and an index
\* outside the list is clamped to its ends
ListInsert(lst, index, x) ==
    LET i0 == IF index < 0 THEN index + Len(lst) ELSE index
        i == IF i0 < 0 THEN 0 ELSE IF i0 > Len(lst) THEN Len(lst) ELSE i0
    IN  SubSeq(lst, 1, i) \o <<x>> \o SubSeq(lst, i + 1, Len(lst))

\* a setdefault in place of the assignment: an existing entry is kept
SetItem_KeepOld(d, key, tag) ==
    [k \in DOMAIN d \cup {key} |-> IF k \in DOMAIN d THEN d[k] ELSE tag]

\* self.tags[key] = tag
SetItem(d, key, tag) == [k \in DOMAIN d \cup {key} |-> IF k = key THEN tag ELSE d[k]]

\* a duplicate test that never finds the key
RegisterKnows_Never(s, key) == FALSE

\* `key in self.tags` as register tests it
RegisterKnows(s, key) == key \in DOMAIN s.tags

\* register with the assignment to self.tags moved above the duplicate test
register_AssignFirst(s, tag_class, force, index) ==
    LET tag == [id |-> Len(s.order) + 1, cls |-> tag_class]
        key == tag_class.key
        newtags == IF tag_class.keyed THEN SetItem(s.tags, key, tag) ELSE s.tags
        neworder == IF index.given THEN ListInsert(s.order, index.at, tag)
                    ELSE Append(s.order, tag)
    IN  IF tag_class.keyed /\ ~force /\ RegisterKnows(s, key)
        THEN [out |-> Raise("KeyError"), self |-> [tags |-> newtags, order |-> s.order]]
        ELSE [out |-> Ok(PyNone), self |-> [tags |-> newtags, order |-> neworder]]

\* register with the insertion into self.order moved above the duplicate test
register_InsertFirst(s, tag_class, force, index) ==
    LET tag == [id |-> Len(s.order) + 1, cls |-> tag_class]
        key == tag_class.key
        newtags == IF tag_class.keyed THEN SetItem(s.tags, key, tag) ELSE s.tags
        neworder == IF index.given THEN ListInsert(s.order, index.at, tag)
                    ELSE Append(s.order, tag)
    IN  IF tag_class.keyed /\ ~force /\ RegisterKnows(s, key)
        THEN [out |-> Raise("KeyError"), self |-> [tags |-> s.tags, order |-> neworder]]
        ELSE [out |-> Ok(PyNone), self |-> [tags |-> newtags, order |-> neworder]]

\* register(tag_class, force, index): the outcome and the serializer afterwards
register(s, tag_class, force, index) ==
    LET tag == [id |-> Len(s.order) + 1, cls |-> tag_class]
        key == tag_class.key
        newtags == IF tag_class.keyed THEN SetItem(s.tags, key, tag) ELSE s.tags
        neworder == IF index.given THEN ListInsert(s.order, index.at, tag)
                    ELSE Append(s.order, tag)
    IN  IF tag_class.keyed /\ ~force /\ RegisterKnows(s, key)
        THEN [out |-> Raise("KeyError"), self |-> s]
        ELSE [out |-> Ok(PyNone), self |-> [tags |-> newtags, order |-> neworder]]

\* __init__: register every class of default_tags on an empty serializer
RECURSIVE RegisterAll(_, _, _)
RegisterAll(s, classes, i) ==
    IF i > Len(classes) THEN s
    ELSE RegisterAll(register(s, classes[i], FALSE, NoIndex).self, classes, i + 1)

EmptyTags == [k \in {} |-> 0]
NewSerializer == RegisterAll([tags |-> EmptyTags, order |-> <<>>], default_tags, 1)

(***************************************************************************)
(* Base64 (b64encode / b64decode of TagBytes).  Bytes are 0..255.          *)
(***************************************************************************)
B64Chars ==
    <<"A", "B", "C", "D", "E", "F", "G", "H", "I", "J", "K", "L", "M",
      "N", "O", "P", "Q", "R", "S", "T", "U", "V", "W", "X", "Y", "Z",
      "a", "b", "c", "d", "e", "f", "g", "h", "i", "j", "k", "l", "m",
      "n", "o", "p", "q", "r", "s", "t", "u", "v", "w", "x", "y", "z",
      "0", "1", "2", "3", "4", "5", "6", "7", "8", "9", "+", "/">>

B64Char(i) == B64Chars[i + 1]
IsB64Char(c) == \E i \in 1..Len(B64Chars) : B64Chars[i] = c
B64Index(c) == (CHOOSE i \in 1..Len(B64Chars) : B64Chars[i] = c) - 1

\* b64encode(value).decode('ascii'): three bytes give four characters, the
\* last group is padded with '='
RECURSIVE B64Encode(_)
B64Encode(bs) ==
    IF Len(bs) = 0 THEN <<>>
    ELSE IF Len(bs) = 1 THEN
        <<B64Char(bs[1] \div 4), B64Char((bs[1] % 4) * 16), "=", "=">>
    ELSE IF Len(bs) = 2 THEN
        <<B64Char(bs[1] \div 4), B64Char((bs[1] % 4) * 16 + bs[2] \div 16),
          B64Char((bs[2] % 16) * 4), "=">>
    ELSE
        <<B64Char(bs[1] \div 4), B64Char((bs[1] % 4) * 16 + bs[2] \div 16),
          B64Char((bs[2] % 16) * 4 + bs[3] \div 64), B64Char(bs[3] % 64)>>
        \o B64Encode(SubSeq(bs, 4, Len(bs)))

\* the next character after position i that is '=' or in the alphabet
\* (binascii_find_valid), "" when there is none
NextValid(cs, i) ==
    LET later == {j \in (i + 1)..Len(cs) : cs[j] = "=" \/ IsB64Char(cs[j])}
    IN  IF later = {} THEN "" ELSE cs[CHOOSE j \in later : \A k \in later : j <= k]

\* 2^k for the bit counts the decoder keeps (0, 2, 4, 6)
Pow2(k) == IF k = 0 THEN 1 ELSE IF k = 2 THEN 4 ELSE IF k = 4 THEN 16 ELSE 64

\* binascii.a2b_base64: characters outside the alphabet are skipped, a pad
\* ends the input once two characters of a quad were read, bits left over
\* after the last character are an error
RECURSIVE A2B(_, _, _, _, _, _)
A2B(cs, i, quad_pos, leftchar, leftbits, acc) ==
    IF i > Len(cs) THEN
        IF leftbits # 0 THEN Raise("binascii.Error") ELSE Ok(PyBytes(acc))
    ELSE IF cs[i] = "=" THEN
        IF quad_pos < 2 \/ (quad_pos = 2 /\ NextValid(cs, i) # "=")
        THEN A2B(cs, i + 1, quad_pos, leftchar, leftbits, acc)
        ELSE Ok(PyBytes(acc))
    ELSE IF ~IsB64Char(cs[i]) THEN
        A2B(cs, i + 1, quad_pos, leftchar, leftbits, acc)
    ELSE
        LET c == leftchar * 64 + B64Index(cs[i])
            bits == leftbits + 6
        IN  IF bits >= 8
            THEN A2B(cs, i + 1, (quad_pos + 1) % 4, c % Pow2(bits - 8), bits - 8,
                     Append(acc, (c \div Pow2(bits - 8)) % 256))
            ELSE A2B(cs, i + 1, (quad_pos + 1) % 4, c, bits, acc)

B64Decode(cs) == A2B(cs, 1, 0, 0, 0, <<>>)

(***************************************************************************)
(* Helpers for the conversions of the scalar tags.                         *)
(***************************************************************************)
IsText(v) == v.type \in {"str", "markup"}

\* bool(value)
Truthy(v) ==
    CASE v.type = "none" -> FALSE
      [] v.type \in {"bool", "int"} -> v.n[1] # 0
      [] v.type \in {"str", "markup"} -> Len(v.s) > 0
      [] v.type = "bytes" -> Len(v.n) > 0
      [] v.type \in {"list", "tuple", "dict", "odict"} -> Len(v.items) > 0
      [] OTHER -> TRUE

\* text_type(value) of a scalar, as Markup(value) needs it
Digits == <<"0", "1", "2", "3", "4", "5", "6", "7", "8", "9">>
TextOf(v) ==
    CASE IsText(v) -> v.s
      [] v.type = "none" -> <<"N", "o", "n", "e">>
      [] v.type = "bool" /\ v.n[1] = 1 -> <<"T", "r", "u", "e">>
      [] v.type = "bool" /\ v.n[1] = 0 -> <<"F", "a", "l", "s", "e">>
      [] v.type = "int" /\ v.n[1] \in 0..9 -> <<Digits[v.n[1] + 1]>>

\* UUID(hex): dashes are removed, 32 hexadecimal digits are required, and the
\* value is kept as lower-case hex (UUID.hex)
UuidLen == 32
LowerHex == <<"0", "1", "2", "3", "4", "5", "6", "7", "8", "9",
              "a", "b", "c", "d", "e", "f">>
UpperHex == <<"0", "1", "2", "3", "4", "5", "6", "7", "8", "9",
              "A", "B", "C", "D", "E", "F">>
IsHex(c) == \E i \in 1..Len(LowerHex) : LowerHex[i] = c \/ UpperHex[i] = c
ToLower(c) ==
    IF \E i \in 1..Len(UpperHex) : UpperHex[i] = c
    THEN LowerHex[CHOOSE i \in 1..Len(UpperHex) : UpperHex[i] = c]
    ELSE c
NotDash(c) == c # "-"
ParseUUID(text) ==
    LET hex == SelectSeq(text, NotDash)
    IN  IF Len(hex) # UuidLen THEN Raise("ValueError")
        ELSE IF \E i \in 1..Len(hex) : ~IsHex(hex[i]) THEN Raise("ValueError")
        ELSE Ok(PyUUID([i \in 1..Len(hex) |-> ToLower(hex[i])]))

\* the HTTP dates http_date writes and parse_date reads back
HttpDate1 ==
    <<"M", "o", "n", ",", " ", "0", "1", " ", "J", "a", "n", " ", "2", "0",
      "2", "4", " ", "0", "0", ":", "0", "0", ":", "0", "0", " ", "G", "M",
      "T">>
HttpDates == {HttpDate1}

(***************************************************************************)
(* The tag classes: check, to_json, to_python, tag.  `t` is a tag          *)
(* instance, `s` the serializer it is bound to (t.serializer).             *)
(***************************************************************************)
\* a guard that knows the discriminators of the default tags only
check_KeysAtConstruction(t, s, value) ==
    CASE t.cls.name = "TagDict" ->
            /\ IsDict(value)
            /\ Len(value.items) = 1
            /\ EntryKey(value.items[1]) \in {K_di, K_t, K_b, K_m, K_u, K_d}
      [] t.cls.name = "PassDict" -> IsDict(value)
      [] t.cls.name = "TagTuple" -> value.type = "tuple"
      [] t.cls.name = "PassList" -> value.type = "list"
      [] t.cls.name = "TagBytes" -> value.type = "bytes"
      [] t.cls.name = "TagMarkup" -> value.type = "markup"
      [] t.cls.name = "TagUUID" -> value.type = "uuid"
      [] t.cls.name = "TagDateTime" -> value.type = "datetime"
      [] t.cls.name = "TagOrderedDict" -> value.type = "odict"
      [] t.cls.name = "TagItemsDict" -> value.type = "odict"

\* tag.check(value) of every tag class
check(t, s, value) ==
    CASE t.cls.name = "TagDict" ->
            /\ IsDict(value)
            /\ Len(value.items) = 1
            /\ EntryKey(value.items[1]) \in DOMAIN s.tags
      [] t.cls.name = "PassDict" -> IsDict(value)
      [] t.cls.name = "TagTuple" -> value.type = "tuple"
      [] t.cls.name = "PassList" -> value.type = "list"
      [] t.cls.name = "TagBytes" -> value.type = "bytes"
      [] t.cls.name = "TagMarkup" -> value.type = "markup"
      [] t.cls.name = "TagUUID" -> value.type = "uuid"
      [] t.cls.name = "TagDateTime" -> value.type = "datetime"
      [] t.cls.name = "TagOrderedDict" -> value.type = "odict"
      [] t.cls.name = "TagItemsDict" -> value.type = "odict"

RECURSIVE tag(_, _)

\* items tagged by a serializer of their own, holding the default tags only
TagEach_OwnRegistry(s, items) == [i \in 1..Len(items) |-> tag(NewSerializer, items[i])]

\* [self.serializer.tag(item) for item in items]
TagEach(s, items) == [i \in 1..Len(items) |-> tag(s, items[i])]
ValuesOf(rs) == [i \in 1..Len(rs) |-> rs[i].val]

\* the entries (k, v) of a dict, the values left as they are
TagEntries_Untagged(s, entries) == Ok(PyDict(entries))

\* the entries (k, self.serializer.tag(v)) of a dict
TagEntries(s, entries) ==
    LET rs == [i \in 1..Len(entries) |-> tag(s, EntryValue(entries[i]))]
    IN  IF FirstError(rs) # "none" THEN Raise(FirstError(rs))
        ELSE Ok(PyDict([i \in 1..Len(entries) |->
                        Entry(EntryKey(entries[i]), rs[i].val)]))

\* a comprehension that collects the tagged items last to first
TagItems_Reversed(s, items) ==
    LET rs == TagEach(s, items)
    IN  IF FirstError(rs) # "none" THEN Raise(FirstError(rs))
        ELSE Ok(PyList([i \in 1..Len(rs) |-> rs[Len(rs) + 1 - i].val]))

\* the list [self.serializer.tag(item) for item in value]
TagItems(s, items) ==
    LET rs == TagEach(s, items)
    IN  IF FirstError(rs) # "none" THEN Raise(FirstError(rs))
        ELSE Ok(PyList(ValuesOf(rs)))

\* TagDict.to_json: {key + '__': self.serializer.tag(value[key])}
GuardKey(key) == key \o Suffix
TagDict_to_json(s, value) ==
    LET key == EntryKey(value.items[1])
        r == tag(s, EntryValue(value.items[1]))
    IN  IF r.err # "none" THEN r
        ELSE Ok(PyDict(<<Entry(GuardKey(key), r.val)>>))

\* TagOrderedDict.to_json: [[k, self.serializer.tag(v)] for k, v in items]
TagOrderedDict_to_json(s, value) ==
    LET rs == [i \in 1..Len(value.items) |-> tag(s, EntryValue(value.items[i]))]
    IN  IF FirstError(rs) # "none" THEN Raise(FirstError(rs))
        ELSE Ok(PyList([i \in 1..Len(rs) |->
                        PyList(<<PyStr(EntryKey(value.items[i])), rs[i].val>>)]))

to_json(t, s, value) ==
    CASE t.cls.name = "TagDict" -> TagDict_to_json(s, value)
      [] t.cls.name = "PassDict" -> TagEntries(s, value.items)
      [] t.cls.name = "TagTuple" -> TagItems(s, value.items)
      [] t.cls.name = "PassList" -> TagItems(s, value.items)
      [] t.cls.name = "TagBytes" -> Ok(PyStr(B64Encode(value.n)))
      [] t.cls.name = "TagMarkup" -> Ok(PyStr(value.s))
      [] t.cls.name = "TagUUID" -> Ok(PyStr(value.s))
      [] t.cls.name = "TagDateTime" -> Ok(PyStr(value.s))
      [] t.cls.name = "TagOrderedDict" -> TagOrderedDict_to_json(s, value)
      [] t.cls.name = "TagItemsDict" -> TagEntries(s, value.items)

\* a tag method that returns to_json(value) bare for every class
JSONTag_tag_NoWrapper(t, s, value) == to_json(t, s, value)

\* JSONTag.tag: {self.key: self.to_json(value)}; PassDict and PassList set
\* tag = to_json
JSONTag_tag(t, s, value) ==
    LET r == to_json(t, s, value)
    IN  IF t.cls.name \in {"PassDict", "PassList"} THEN r
        ELSE IF r.err # "none" THEN r
        ELSE Ok(PyDict(<<Entry(t.cls.key, r.val)>>))

\* a loop that hands the value to the tag that holds the key of the first
\* matching tag
TagScan_ByKeyOwner(s, value, i) ==
    LET hits == {j \in i..Len(s.order) : check(s.order[j], s, value)}
        first == s.order[CHOOSE j \in hits : \A k \in hits : j <= k]
    IN  IF hits = {} THEN Ok(value)
        ELSE IF first.cls.keyed THEN JSONTag_tag(s.tags[first.cls.key], s, value)
        ELSE JSONTag_tag(first, s, value)

\* a loop that keeps the last matching tag instead of returning at the first
TagScan_LastMatch(s, value, i) ==
    LET hits == {j \in i..Len(s.order) : check(s.order[j], s, value)}
    IN  IF hits = {} THEN Ok(value)
        ELSE JSONTag_tag(s.order[CHOOSE j \in hits : \A k \in hits : k <= j], s, value)

\* a loop that rejects a value no tag matches
TagScan_NoFallthrough(s, value, i) ==
    LET hits == {j \in i..Len(s.order) : check(s.order[j], s, value)}
    IN  IF hits = {} THEN Raise("TypeError")
        ELSE JSONTag_tag(s.order[CHOOSE j \in hits : \A k \in hits : j <= k], s, value)

\* the loop of TaggedJSONSerializer.tag from position i of self.order
RECURSIVE TagScan(_, _, _)
TagScan(s, value, i) ==
    IF i > Len(s.order) THEN Ok(value)
    ELSE IF check(s.order[i], s, value) THEN JSONTag_tag(s.order[i], s, value)
    ELSE TagScan(s, value, i + 1)

tag(s, value) == TagScan(s, value, 1)

(***************************************************************************)
(* to_python of the tag classes.  The body is whatever the JSON parser (or *)
(* an inner untag) produced, so every Python type is a possible argument.  *)
(***************************************************************************)
HasLen(v) == v.type \in {"str", "markup", "bytes", "list", "tuple", "dict", "odict"}

\* len(value)
PyLen(v) ==
    CASE v.type \in {"str", "markup"} -> Len(v.s)
      [] v.type = "bytes" -> Len(v.n)
      [] v.type \in {"list", "tuple", "dict", "odict"} -> Len(v.items)

\* next(iter(value)) of a non-empty value: the first key of a dict, the first
\* element of a sequence, the first character of a text, the first byte
FirstOf(v) ==
    CASE IsDict(v) -> PyStr(EntryKey(v.items[1]))
      [] v.type \in {"list", "tuple"} -> v.items[1]
      [] v.type \in {"str", "markup"} -> PyStr(<<v.s[1]>>)
      [] v.type = "bytes" -> PyInt(v.n[1])

\* a guard decode that forgets to strip the suffix
TagDict_to_python_KeepKey(value) ==
    IF ~HasLen(value) THEN Raise("TypeError")
    ELSE IF PyLen(value) = 0 THEN Raise("StopIteration")
    ELSE IF IsDict(value) THEN Ok(PyDict(<<value.items[1]>>))
    ELSE Raise("TypeError")

\* a guard decode that strips the suffix only where it finds it
TagDict_to_python_Checked(value) ==
    IF ~HasLen(value) THEN Raise("TypeError")
    ELSE IF PyLen(value) = 0 THEN Raise("StopIteration")
    ELSE IF IsDict(value)
         THEN LET key == EntryKey(value.items[1])
              IN  IF Len(key) >= 2 /\ SubSeq(key, Len(key) - 1, Len(key)) = Suffix
                  THEN Ok(PyDict(<<Entry(DropLast2(key), EntryValue(value.items[1]))>>))
                  ELSE Ok(value)
    ELSE Raise("TypeError")

\* TagDict.to_python: key = next(iter(value)); {key[:-2]: value[key]}
TagDict_to_python(value) ==
    IF ~HasLen(value) THEN Raise("TypeError")
    ELSE IF PyLen(value) = 0 THEN Raise("StopIteration")
    ELSE IF IsDict(value)
         THEN Ok(PyDict(<<Entry(DropLast2(EntryKey(value.items[1])),
                                EntryValue(value.items[1]))>>))
    ELSE Raise("TypeError")

\* list(value) in place of tuple(value)
TagTuple_to_python_AsList(value) ==
    CASE value.type \in {"list", "tuple"} -> Ok(PyList(value.items))
      [] OTHER -> Raise("TypeError")

\* tuple(value)
TagTuple_to_python(value) ==
    CASE value.type \in {"list", "tuple"} -> Ok(PyTuple(value.items))
      [] IsDict(value) ->
            Ok(PyTuple([i \in 1..Len(value.items) |-> PyStr(EntryKey(value.items[i]))]))
      [] IsText(value) -> Ok(PyTuple([i \in 1..Len(value.s) |-> PyStr(<<value.s[i]>>)]))
      [] value.type = "bytes" -> Ok(PyTuple([i \in 1..Len(value.n) |-> PyInt(value.n[i])]))
      [] OTHER -> Raise("TypeError")

\* the ASCII character of a byte, "?" for one outside the base64 alphabet
ByteChar(b) ==
    IF b \in 65..90 THEN B64Chars[b - 64]
    ELSE IF b \in 97..122 THEN B64Chars[b - 70]
    ELSE IF b \in 48..57 THEN B64Chars[b + 5]
    ELSE IF b = 43 THEN "+"
    ELSE IF b = 47 THEN "/"
    ELSE IF b = 61 THEN "="
    ELSE "?"

\* b64decode(value)
TagBytes_to_python(value) ==
    CASE IsText(value) -> B64Decode(value.s)
      [] value.type = "bytes" -> B64Decode([i \in 1..Len(value.n) |-> ByteChar(value.n[i])])
      [] OTHER -> Raise("TypeError")

\* Markup(value), for a text or a scalar body
TagMarkup_to_python(value) == Ok(PyMarkup(TextOf(value)))

\* UUID(value)
TagUUID_to_python(value) ==
    CASE IsText(value) -> ParseUUID(value.s)
      [] value.type \in {"none", "bytes"} -> Raise("TypeError")
      [] OTHER -> Raise("AttributeError")

\* parse_date(value): None for a falsy or an unparsable value
TagDateTime_to_python(value) ==
    IF ~Truthy(value) THEN Ok(PyNone)
    ELSE IF IsText(value)
         THEN IF value.s \in HttpDates THEN Ok(PyDateTime(value.s, 0)) ELSE Ok(PyNone)
    ELSE Raise("AttributeError")

\* OrderedDict(value), for a mapping or a sequence of [key, value] pairs
\* with text keys
IsPair(v) == v.type \in {"list", "tuple"} /\ Len(v.items) = 2 /\ IsText(v.items[1])
PairError(v) ==
    IF v.type \in {"none", "bool", "int", "uuid", "datetime"} THEN "TypeError"
    ELSE "ValueError"
TagOrderedDict_to_python(value) ==
    CASE IsDict(value) -> Ok(PyODict(value.items))
      [] value.type \in {"list", "tuple"} ->
            LET bad == {i \in 1..Len(value.items) : ~IsPair(value.items[i])}
            IN  IF bad # {}
                THEN Raise(PairError(value.items[CHOOSE i \in bad : \A j \in bad : i <= j]))
                ELSE Ok(PyODict([i \in 1..Len(value.items) |->
                                 Entry(value.items[i].items[1].s, value.items[i].items[2])]))
      [] IsText(value) -> IF Len(value.s) = 0 THEN Ok(PyODict(<<>>)) ELSE Raise("ValueError")
      [] OTHER -> Raise("TypeError")

\* OrderedDict(value.items())
TagItemsDict_to_python(value) ==
    IF IsDict(value) THEN Ok(PyODict(value.items)) ELSE Raise("AttributeError")

to_python(t, s, value) ==
    CASE t.cls.name = "TagDict" -> TagDict_to_python(value)
      [] t.cls.name = "TagTuple" -> TagTuple_to_python(value)
      [] t.cls.name = "TagBytes" -> TagBytes_to_python(value)
      [] t.cls.name = "TagMarkup" -> TagMarkup_to_python(value)
      [] t.cls.name = "TagUUID" -> TagUUID_to_python(value)
      [] t.cls.name = "TagDateTime" -> TagDateTime_to_python(value)
      [] t.cls.name = "TagOrderedDict" -> TagOrderedDict_to_python(value)
      [] t.cls.name = "TagItemsDict" -> TagItemsDict_to_python(value)
      [] OTHER -> Raise("NotImplementedError")

(***************************************************************************)
(* TaggedJSONSerializer.untag                                              *)
(***************************************************************************)
\* hash(key) fails for a list or a dict, and for a tuple that holds one
RECURSIVE Hashable(_)
Hashable(v) ==
    /\ v.type \notin {"list", "dict", "odict"}
    /\ v.type = "tuple" => \A i \in 1..Len(v.items) : Hashable(v.items[i])

\* `key in self.tags` for the key untag found: a text equal to a discriminator
UntagKnows(s, key) == IsText(key) /\ key.s \in DOMAIN s.tags

\* a lookup through self.order: the first tag that carries the key
UntagLookup_ByOrder(s, key) ==
    LET hits == {i \in 1..Len(s.order) :
                    s.order[i].cls.keyed /\ s.order[i].cls.key = key.s}
    IN  s.order[CHOOSE i \in hits : \A j \in hits : i <= j]

\* self.tags[key] as untag reads it
UntagLookup(s, key) == s.tags[key.s]

\* an untag that hands what to_python returned to untag once more
untag_Again(s, value) ==
    LET once(v) ==
            IF ~HasLen(v) THEN Raise("TypeError")
            ELSE IF PyLen(v) # 1 THEN Ok(v)
            ELSE LET key == FirstOf(v)
                 IN  IF ~Hashable(key) THEN Raise("TypeError")
                     ELSE IF ~UntagKnows(s, key) THEN Ok(v)
                     ELSE IF ~IsDict(v) THEN Raise("TypeError")
                     ELSE to_python(UntagLookup(s, key), s, EntryValue(v.items[1]))
        r == once(value)
    IN  IF r.err = "none" /\ r.val # value THEN once(r.val) ELSE r

\* an untag that returns the mapping as it is when to_python raises
untag_Swallow(s, value) ==
    IF ~HasLen(value) THEN Raise("TypeError")
    ELSE IF PyLen(value) # 1 THEN Ok(value)
    ELSE LET key == FirstOf(value)
         IN  IF ~Hashable(key) THEN Raise("TypeError")
             ELSE IF ~UntagKnows(s, key) THEN Ok(value)
             ELSE IF ~IsDict(value) THEN Raise("TypeError")
             ELSE LET r == to_python(UntagLookup(s, key), s, EntryValue(value.items[1]))
                  IN  IF r.err # "none" THEN Ok(value) ELSE r

\* TaggedJSONSerializer.untag
untag(s, value) ==
    IF ~HasLen(value) THEN Raise("TypeError")
    ELSE IF PyLen(value) # 1 THEN Ok(value)
    ELSE LET key == FirstOf(value)
         IN  IF ~Hashable(key) THEN Raise("TypeError")
             ELSE IF ~UntagKnows(s, key) THEN Ok(value)
             ELSE IF ~IsDict(value) THEN Raise("TypeError")
             ELSE to_python(UntagLookup(s, key), s, EntryValue(value.items[1]))

(***************************************************************************)
(* The JSON layer (flask.json.dumps / loads).  A JSON text is modelled by  *)
(* its document tree: object, array, string, number, true, false, null.    *)
(***************************************************************************)
Doc(t, s, n, items) == Node(t, s, n, items)
Member(k, d) == Doc("member", k, <<>>, <<d>>)

\* JSON text of a value: a tuple is written as an array, an OrderedDict as
\* an object, a Markup as a string; anything else is not serializable
RECURSIVE JsonDumps(_)
JsonDumps(v) ==
    CASE v.type = "none" -> Ok(Doc("null", <<>>, <<>>, <<>>))
      [] v.type = "bool" ->
            Ok(Doc(IF v.n[1] = 1 THEN "true" ELSE "false", <<>>, <<>>, <<>>))
      [] v.type = "int" -> Ok(Doc("number", <<>>, v.n, <<>>))
      [] v.type \in {"str", "markup"} -> Ok(Doc("string", v.s, <<>>, <<>>))
      [] v.type \in {"list", "tuple"} ->
            LET rs == [i \in 1..Len(v.items) |-> JsonDumps(v.items[i])]
            IN  IF FirstError(rs) # "none" THEN Raise(FirstError(rs))
                ELSE Ok(Doc("array", <<>>, <<>>, ValuesOf(rs)))
      [] v.type \in {"dict", "odict"} ->
            LET rs == [i \in 1..Len(v.items) |-> JsonDumps(EntryValue(v.items[i]))]
            IN  IF FirstError(rs) # "none" THEN Raise(FirstError(rs))
                ELSE Ok(Doc("object", <<>>, <<>>,
                            [i \in 1..Len(rs) |-> Member(EntryKey(v.items[i]), rs[i].val)]))
      [] OTHER -> Raise("TypeError")

\* parse of a JSON text with object_hook=self.untag: children first, then
\* the hook on every object built
RECURSIVE JsonLoads(_, _)
JsonLoads(s, d) ==
    CASE d.type = "null" -> Ok(PyNone)
      [] d.type = "true" -> Ok(PyBool(TRUE))
      [] d.type = "false" -> Ok(PyBool(FALSE))
      [] d.type = "number" -> Ok(PyInt(d.n[1]))
      [] d.type = "string" -> Ok(PyStr(d.s))
      [] d.type = "array" ->
            LET rs == [i \in 1..Len(d.items) |-> JsonLoads(s, d.items[i])]
            IN  IF FirstError(rs) # "none" THEN Raise(FirstError(rs))
                ELSE Ok(PyList(ValuesOf(rs)))
      [] d.type = "object" ->
            LET rs == [i \in 1..Len(d.items) |-> JsonLoads(s, d.items[i].items[1])]
            IN  IF FirstError(rs) # "none" THEN Raise(FirstError(rs))
                ELSE untag(s, PyDict([i \in 1..Len(rs) |-> Entry(d.items[i].s, rs[i].val)]))

\* the objects of the text the parser calls object_hook for, by their paths
\* from the root, in the order of the calls; the parse stops at the first
\* call that raises
RECURSIVE Flatten(_, _)
Flatten(seqs, n) == IF n = 0 THEN <<>> ELSE Flatten(seqs, n - 1) \o seqs[n]
RECURSIVE Hooks(_, _, _)
Hooks(s, d, path) ==
    LET child(i) == IF d.type = "object" THEN d.items[i].items[1] ELSE d.items[i]
        bad == {i \in 1..Len(d.items) : JsonLoads(s, child(i)).err # "none"}
        last == IF bad = {} THEN Len(d.items) ELSE CHOOSE i \in bad : \A j \in bad : i <= j
        inner == Flatten([i \in 1..last |-> Hooks(s, child(i), Append(path, i))], last)
    IN  IF d.type = "array" THEN inner
        ELSE IF d.type = "object" THEN (IF bad = {} THEN Append(inner, path) ELSE inner)
        ELSE <<>>

\* TaggedJSONSerializer.dumps
dumps(s, value) ==
    LET r == tag(s, value)
    IN  IF r.err # "none" THEN r ELSE JsonDumps(r.val)

\* TaggedJSONSerializer.loads
loads(s, text) == JsonLoads(s, text)

(***************************************************************************)
(* Inputs of the calls.                                                    *)
(***************************************************************************)
\* longest list, tuple or dict built from the leaves
MaxLen == 2

T_a == <<"a">>
T_x == <<"x">>
T_y == <<"y">>
K_t_guarded == GuardKey(K_t)
Uuid1 ==
    <<"1", "2", "3", "4", "5", "6", "7", "8", "1", "2", "3", "4", "1", "2",
      "3", "4", "1", "2", "3", "4", "1", "2", "3", "4", "5", "6", "7", "8",
      "9", "0", "1", "2">>

\* the classes an application registers: built-in classes again, and
\* subclasses of the docstring's TagOrderedDict under several discriminators
RegClasses ==
    {PassList, TagOrderedDict(K_od), TagOrderedDict(K_t), TagOrderedDict(K_t_guarded)}
RegIndexes == {NoIndex, Index(0)}

\* every kind of index list.insert accepts: inside the list, at its end,
\* beyond its end, negative, and negative beyond its start
AnyIndexes == {NoIndex, Index(0), Index(3), Index(8), Index(20), Index(-1), Index(-20)}

\* every discriminator a serializer of the model can hold
AllKeys == {K_di, K_t, K_b, K_m, K_u, K_d, K_od, K_t_guarded}

\* sequences of length n over S
RECURSIVE SeqsOf(_, _)
SeqsOf(S, n) ==
    IF n = 0 THEN {<<>>}
    ELSE {Append(xs, x) : xs \in SeqsOf(S, n - 1), x \in S}
SeqsUpTo(S, n) == UNION {SeqsOf(S, k) : k \in 0..n}

\* sequences of n entries with pairwise distinct keys
EntrySeqs(keys, vals, n) ==
    {es \in SeqsOf({Entry(k, v) : k \in keys, v \in vals}, n) :
        \A i, j \in 1..n : i # j => EntryKey(es[i]) # EntryKey(es[j])}

\* JSON-native scalars, among them a text equal to a discriminator
Scalars == {PyNone, PyBool(TRUE), PyBool(FALSE), PyInt(1), PyStr(T_a), PyStr(K_t)}
ByteStrings == {PyBytes(<<>>), PyBytes(<<0, 1>>), PyBytes(<<255>>), PyBytes(<<104, 105, 33>>)}
Leaves == Scalars \cup ByteStrings

\* the leaves nested containers are built from
Atoms == {PyInt(1), PyStr(K_t), PyBytes(<<0, 1>>)}
DictAtoms == {PyInt(1), PyBytes(<<0, 1>>)}
DictKeys == {T_x, K_t, K_di, K_t_guarded}

\* containers of leaves
Flat ==
    {PyList(xs) : xs \in SeqsUpTo(Atoms, MaxLen)}
    \cup {PyTuple(xs) : xs \in SeqsUpTo(Atoms, MaxLen)}
    \cup UNION {{PyDict(es) : es \in EntrySeqs(DictKeys, DictAtoms, k)} : k \in 0..MaxLen}

\* one more level around a value
Wrap(v) ==
    {PyList(<<v>>), PyTuple(<<v>>), PyTuple(<<PyInt(1), v>>),
     PyDict(<<Entry(T_x, v), Entry(K_t, PyInt(1))>>)}
    \cup {PyDict(<<Entry(k, v)>>) : k \in DictKeys}
WrapAgain(v) ==
    {PyList(<<v, PyInt(1)>>), PyTuple(<<v>>), PyDict(<<Entry(K_t, v)>>)}

Nested == UNION {Wrap(v) : v \in Flat}
Deep == UNION {WrapAgain(v) : v \in Nested}

\* the examples of the documentation
List123 == PyList(<<PyInt(1), PyInt(2), PyInt(3)>>)
GuardExample == PyDict(<<Entry(K_t, List123)>>)
GuardBody == PyDict(<<Entry(GuardKey(K_t), List123)>>)
GuardWire == PyDict(<<Entry(K_di, GuardBody)>>)
Examples ==
    {GuardExample, GuardBody, GuardWire,
     PyTuple(<<PyInt(1), PyStr(T_a), PyBool(TRUE)>>),
     PyDict(<<Entry(T_x, PyTuple(<<PyInt(1), PyInt(2)>>))>>)}

\* the values of the round-trip contract: JSON-native scalars, string-keyed
\* mappings, lists, tuples and byte strings, nested
Values == Leaves \cup Flat \cup Nested \cup Deep \cup Examples

\* JSON-native values a single-entry mapping may hold
NativeBodies ==
    {PyInt(1), PyStr(T_a), PyList(<<PyInt(1), PyInt(1)>>),
     PyDict(<<Entry(T_x, PyInt(1))>>), PyDict(<<Entry(K_t, PyInt(1))>>)}

\* single-entry mappings keyed by a discriminator or by an ordinary key
SingleMaps == {PyDict(<<Entry(k, b)>>) : k \in AllKeys \cup {T_x}, b \in NativeBodies}

\* OrderedDicts inside lists, tuples, mappings and guarded single-entry
\* mappings, up to four levels down
OD_x == PyODict(<<Entry(T_x, PyInt(1))>>)
NestedOrdered ==
    {PyList(<<OD_x>>),
     PyTuple(<<PyInt(1), PyODict(<<>>)>>),
     PyDict(<<Entry(T_x, PyList(<<OD_x>>)), Entry(T_y, PyInt(1))>>),
     PyDict(<<Entry(K_t, OD_x)>>),
     PyTuple(<<PyDict(<<Entry(K_t,
         PyTuple(<<PyODict(<<Entry(T_x, PyODict(<<>>))>>)>>))>>)>>)}

\* values an application hands to a serializer it has extended
AppValues ==
    Scalars
    \cup NestedOrdered
    \cup SingleMaps
    \cup {PyBytes(<<0, 1>>), PyMarkup(T_a), PyUUID(Uuid1), PyDateTime(HttpDate1, 0),
          PyList(<<PyInt(1), PyTuple(<<PyInt(1)>>)>>),
          PyTuple(<<PyInt(1), PyStr(T_a), PyBool(TRUE)>>),
          PyDict(<<>>),
          PyDict(<<Entry(T_x, PyTuple(<<PyInt(1), PyInt(1)>>))>>),
          PyDict(<<Entry(K_t, PyInt(1)), Entry(T_x, PyInt(1))>>),
          PyODict(<<>>),
          PyODict(<<Entry(T_x, PyInt(1))>>),
          PyODict(<<Entry(K_t, PyInt(1))>>),
          PyODict(<<Entry(T_x, PyTuple(<<PyInt(1)>>)), Entry(T_y, PyInt(1))>>)}
    \cup Examples

\* bodies found under a discriminator on the wire
WireBodies ==
    {PyNone, PyInt(1), PyStr(T_a), PyStr(Uuid1), PyStr(HttpDate1),
     PyStr(<<"A", "A", "E", "=">>), PyStr(<<"A">>),
     PyList(<<>>), PyList(<<PyInt(1), PyStr(T_a)>>),
     PyList(<<PyList(<<PyStr(T_x), PyInt(1)>>)>>),
     PyDict(<<>>), PyDict(<<Entry(GuardKey(K_t), PyInt(1))>>),
     PyDict(<<Entry(<<"a", "b">>, PyInt(1))>>),
     PyDict(<<Entry(GuardKey(T_x), PyInt(1)), Entry(T_y, PyInt(1))>>)}

\* the bodies Markup() is modelled for
MarkupBodies == {b \in WireBodies : b.type \in {"none", "int", "str"}}

\* arguments of untag: wrappers, and values that are not single-entry mappings
UntagArgs ==
    Scalars
    \cup {PyDict(<<Entry(k, b)>>) : k \in (AllKeys \ {K_m}) \cup {T_x}, b \in WireBodies}
    \cup {PyDict(<<Entry(K_m, b)>>) : b \in MarkupBodies}
    \cup {PyList(<<>>), PyList(<<PyInt(1)>>), PyList(<<PyStr(K_t)>>),
          PyList(<<PyList(<<>>)>>), PyList(<<PyInt(1), PyInt(1)>>),
          PyStr(<<>>), PyDict(<<>>),
          PyDict(<<Entry(K_di, PyDict(<<Entry(T_x, PyInt(1))>>))>>),
          PyDict(<<Entry(K_di, PyDict(<<Entry(<<>>, PyInt(1))>>))>>),
          PyDict(<<Entry(K_t, PyList(<<>>)), Entry(T_x, PyInt(1))>>),
          PyDict(<<Entry(T_x, PyInt(1)), Entry(K_b, PyStr(T_a)), Entry(T_y, PyInt(1))>>)}

\* JSON texts handed to loads: the texts of the JSON-serializable arguments
\* of untag, bare and nested
NestedWire ==
    {PyDict(<<Entry(T_x, PyDict(<<Entry(K_t, PyList(<<PyDict(<<Entry(K_t, PyList(<<PyInt(1)>>))>>)>>))>>))>>),
     PyDict(<<Entry(K_di, PyDict(<<Entry(GuardKey(K_t), PyDict(<<Entry(K_b, PyStr(<<"A", "A", "E", "=">>))>>))>>))>>),
     PyList(<<PyDict(<<Entry(K_t, PyList(<<>>))>>), PyDict(<<Entry(K_u, PyStr(T_a))>>)>>),
     PyDict(<<Entry(K_t, PyDict(<<Entry(K_t, PyList(<<PyInt(1)>>))>>))>>)}
Texts ==
    {r.val : r \in {q \in {JsonDumps(w) : w \in UntagArgs \cup NestedWire \cup Examples} :
                        q.err = "none"}}

(***************************************************************************)
(* The calls.                                                              *)
(***************************************************************************)
NoCall == [cls |-> Class("", FALSE, <<>>), force |-> FALSE, index |-> NoIndex]
NoSrc == [known |-> FALSE, val |-> PyNone]

\* the threads that call into the serializer, and a caller that is not in
\* a call
Callers == {"c1", "c2"}
NotCalling == [pc |-> "idle", kind |-> "", value |-> PyNone, i |-> 0, out |-> Ok(PyNone)]

\* TaggedJSONSerializer()
InitSerializer ==
    /\ tags = NewSerializer.tags
    /\ order = NewSerializer.order
    /\ op = "idle"
    /\ reg = NoCall
    /\ arg = PyNone
    /\ src = NoSrc
    /\ out = Ok(PyNone)
    /\ calls = [c \in Callers |-> NotCalling]
    /\ closed = FALSE

\* Blueprint(name, import_name, static_folder=...)
InitBlueprint ==
    /\ static_folder \in BOOLEAN
    /\ deferred_functions = <<>>
    /\ got_registered_once = FALSE
    /\ registered = 0
    /\ url_rules = <<>>
    /\ invoked = <<>>

\* Config(root_path, defaults), with defaults {"B": 0, "b": 0}
T_B == <<"B">>
T_b == <<"b">>
NotMapped == [called |-> FALSE, mapping |-> <<>>, kwargs |-> <<>>, out |-> Ok(PyNone)]
InitConfig ==
    /\ config = [k \in {T_B, T_b} |-> 0]
    /\ mapped = NotMapped

\* _request_ctx_stack = LocalStack(); _app_ctx_stack = LocalStack()
NotLooked == [fn |-> "", name |-> "", out |-> Ok(PyNone)]
InitContexts ==
    /\ _request_ctx_stack = <<>>
    /\ _app_ctx_stack = <<>>
    /\ pushed = 0
    /\ looked = NotLooked

Init ==
    /\ InitSerializer
    /\ InitBlueprint
    /\ ~static_folder
    /\ InitConfig
    /\ InitContexts

\* serializer.register(tag_class, force, index), for a class of `classes` and
\* an index of `indexes`
RegisterWith(classes, indexes) ==
    /\ op = "idle"
    /\ Len(order) < Len(default_tags) + MaxRegs
    /\ \E tag_class \in classes, force \in BOOLEAN, index \in indexes :
        LET r == register(self, tag_class, force, index)
        IN  /\ tags' = r.self.tags
            /\ order' = r.self.order
            /\ out' = r.out
            /\ reg' = [cls |-> tag_class, force |-> force, index |-> index]
    /\ op' = "register"
    /\ arg' = PyNone
    /\ src' = NoSrc
    /\ UNCHANGED <<caller_vars, blueprint_vars, config_vars, context_vars>>

Register == RegisterWith(RegClasses, RegIndexes)

\* serializer.tag(value), for a value of `values`
Tag(values) ==
    /\ op = "idle"
    /\ \E value \in values :
        /\ arg' = value
        /\ out' = tag(self, value)
    /\ op' = "tag"
    /\ reg' = NoCall
    /\ src' = NoSrc
    /\ UNCHANGED <<tags, order, caller_vars, blueprint_vars,
                   config_vars, context_vars>>

\* serializer.untag(value)
Untag ==
    /\ op = "idle"
    /\ \E value \in UntagArgs :
        /\ arg' = value
        /\ out' = untag(self, value)
    /\ op' = "untag"
    /\ reg' = NoCall
    /\ src' = NoSrc
    /\ UNCHANGED <<tags, order, caller_vars, blueprint_vars,
                   config_vars, context_vars>>

\* serializer.dumps(value), for a value of `values`
Dumps(values) ==
    /\ op = "idle"
    /\ \E value \in values :
        /\ arg' = value
        /\ out' = dumps(self, value)
    /\ op' = "dumps"
    /\ reg' = NoCall
    /\ src' = NoSrc
    /\ UNCHANGED <<tags, order, caller_vars, blueprint_vars,
                   config_vars, context_vars>>

\* serializer.loads(text) of a text received from outside
Loads ==
    /\ op = "idle"
    /\ \E text \in Texts :
        /\ arg' = text
        /\ out' = loads(self, text)
    /\ op' = "loads"
    /\ reg' = NoCall
    /\ src' = NoSrc
    /\ UNCHANGED <<tags, order, caller_vars, blueprint_vars,
                   config_vars, context_vars>>

\* serializer.loads(text) of the text the preceding dumps returned
LoadsDumped ==
    /\ op = "dumps"
    /\ out.err = "none"
    /\ op' = "loads"
    /\ arg' = out.val
    /\ out' = loads(self, out.val)
    /\ reg' = NoCall
    /\ src' = [known |-> TRUE, val |-> arg]
    /\ UNCHANGED <<tags, order, caller_vars, blueprint_vars,
                   config_vars, context_vars>>

\* the caller takes the outcome of the call
Return ==
    /\ op # "idle"
    /\ op' = "idle"
    /\ reg' = NoCall
    /\ arg' = PyNone
    /\ src' = NoSrc
    /\ out' = Ok(PyNone)
    /\ UNCHANGED <<tags, order, caller_vars, blueprint_vars,
                   config_vars, context_vars>>

\* an application that extends the serializer and uses it
Next ==
    \/ Register
    \/ Tag(AppValues)
    \/ Untag
    \/ Dumps(AppValues)
    \/ Loads
    \/ LoadsDumped
    \/ Return

Spec == Init /\ [][Next]_vars

\* the default serializer, never extended, over the nested values
NextDefault ==
    \/ Tag(Values)
    \/ Untag
    \/ Dumps(Values)
    \/ Loads
    \/ LoadsDumped
    \/ Return

SpecDefault == Init /\ [][NextDefault]_vars

\* an application that only extends the serializer, at any index
NextRegister ==
    \/ RegisterWith(RegClasses, AnyIndexes)
    \/ Return

SpecRegister == Init /\ [][NextRegister]_vars

(***************************************************************************)
(* Overrides.  An application registers two tags for OrderedDict under one *)
(* discriminator and decodes what it has encoded.                          *)
(***************************************************************************)
OverrideClasses == {TagOrderedDict(K_od), TagItemsDict(K_od)}
OverrideValues ==
    {PyODict(<<>>), OD_x, PyList(<<OD_x>>), PyTuple(<<PyInt(1)>>),
     PyODict(<<Entry(T_x, PyTuple(<<PyInt(1)>>)), Entry(T_y, PyInt(1))>>)}

\* serializer.untag(wrapper) of the wrapper the preceding tag returned
UntagTagged ==
    /\ op = "tag"
    /\ out.err = "none"
    /\ op' = "untag"
    /\ arg' = out.val
    /\ out' = untag(self, out.val)
    /\ reg' = NoCall
    /\ src' = [known |-> TRUE, val |-> arg]
    /\ UNCHANGED <<tags, order, caller_vars, blueprint_vars,
                   config_vars, context_vars>>

NextOverride ==
    \/ RegisterWith(OverrideClasses, RegIndexes)
    \/ Tag(OverrideValues)
    \/ UntagTagged
    \/ Dumps(OverrideValues)
    \/ LoadsDumped
    \/ Return

SpecOverride == Init /\ [][NextOverride]_vars

(***************************************************************************)
(* Concurrent calls.  Several callers run tag, untag, dumps and loads on   *)
(* one serializer, a step for every read of self.order and self.tags.      *)
(***************************************************************************)
Kinds == {"tag", "untag", "dumps", "loads"}
ConcurrentValues ==
    {PyStr(T_a), PyTuple(<<PyInt(1)>>), OD_x, PyDict(<<Entry(K_t, PyInt(1))>>),
     PyList(<<OD_x>>)}
ConcurrentWire ==
    {PyInt(1), PyDict(<<Entry(T_x, PyInt(1))>>),
     PyDict(<<Entry(K_t, PyList(<<PyInt(1)>>))>>),
     PyDict(<<Entry(K_od, PyList(<<PyList(<<PyStr(T_x), PyInt(1)>>)>>))>>)}
ConcurrentArgs(kind) ==
    CASE kind \in {"tag", "dumps"} -> ConcurrentValues
      [] kind = "untag" -> ConcurrentWire
      [] kind = "loads" -> {JsonDumps(w).val : w \in ConcurrentWire}
FirstStep(kind) ==
    CASE kind \in {"tag", "dumps"} -> "scan"
      [] kind = "untag" -> "lookup"
      [] kind = "loads" -> "parse"

\* the application registers tags until the first call is made
RegisterOpen ==
    /\ ~closed
    /\ RegisterWith({TagOrderedDict(K_od), PassList}, RegIndexes)

\* a caller enters tag, untag, dumps or loads
Call ==
    /\ op = "idle"
    /\ \E c \in Callers :
        /\ calls[c].pc = "idle"
        /\ \E kind \in Kinds :
            \E value \in ConcurrentArgs(kind) :
                calls' = [calls EXCEPT ![c] =
                            [pc |-> FirstStep(kind), kind |-> kind, value |-> value,
                             i |-> 1, out |-> Ok(PyNone)]]
    /\ closed' = TRUE
    /\ UNCHANGED <<tags, order, op, reg, arg, src, out, blueprint_vars,
                   config_vars, context_vars>>

\* the caller's call as it stands after its loop over self.order has ended
\* with outcome r: tag returns it, dumps goes on to serialize it
Scanned(call, r) ==
    [call EXCEPT !.pc = IF call.kind = "tag" THEN "done" ELSE "serialize", !.out = r]

\* an iteration that moves the tag it applies to the head of self.order
ScanStep_MoveToFront ==
    /\ \E c \in Callers :
        LET call == calls[c]
        IN  /\ call.pc = "scan"
            /\ IF call.i > Len(order)
               THEN /\ calls' = [calls EXCEPT ![c] = Scanned(call, Ok(call.value))]
                    /\ order' = order
               ELSE IF check(order[call.i], self, call.value)
               THEN /\ calls' = [calls EXCEPT ![c] =
                            Scanned(call, JSONTag_tag(order[call.i], self, call.value))]
                    /\ order' = <<order[call.i]>>
                                \o SelectSeq(order, LAMBDA t : t # order[call.i])
               ELSE /\ calls' = [calls EXCEPT ![c].i = call.i + 1]
                    /\ order' = order
    /\ UNCHANGED <<tags, op, reg, arg, src, out, closed, blueprint_vars,
                   config_vars, context_vars>>

\* one iteration of `for tag in self.order` in TaggedJSONSerializer.tag
ScanStep ==
    /\ \E c \in Callers :
        LET call == calls[c]
        IN  /\ call.pc = "scan"
            /\ calls' = [calls EXCEPT ![c] =
                    IF call.i > Len(order) THEN Scanned(call, Ok(call.value))
                    ELSE IF check(order[call.i], self, call.value)
                    THEN Scanned(call, JSONTag_tag(order[call.i], self, call.value))
                    ELSE [call EXCEPT !.i = call.i + 1]]
    /\ UNCHANGED <<tags, order, op, reg, arg, src, out, closed, blueprint_vars,
                   config_vars, context_vars>>

\* dumps: the JSON text of the tagged value
Serialize ==
    /\ \E c \in Callers :
        LET call == calls[c]
        IN  /\ call.pc = "serialize"
            /\ calls' = [calls EXCEPT ![c] =
                    [call EXCEPT !.pc = "done",
                                 !.out = IF call.out.err # "none" THEN call.out
                                         ELSE JsonDumps(call.out.val)]]
    /\ UNCHANGED <<tags, order, op, reg, arg, src, out, closed, blueprint_vars,
                   config_vars, context_vars>>

\* untag up to `if key not in self.tags: return value`
Lookup ==
    /\ \E c \in Callers :
        LET call == calls[c]
            value == call.value
            Done(r) == [call EXCEPT !.pc = "done", !.out = r]
        IN  /\ call.pc = "lookup"
            /\ calls' = [calls EXCEPT ![c] =
                    IF ~HasLen(value) THEN Done(Raise("TypeError"))
                    ELSE IF PyLen(value) # 1 THEN Done(Ok(value))
                    ELSE IF ~Hashable(FirstOf(value)) THEN Done(Raise("TypeError"))
                    ELSE IF ~UntagKnows(self, FirstOf(value)) THEN Done(Ok(value))
                    ELSE [call EXCEPT !.pc = "convert"]]
    /\ UNCHANGED <<tags, order, op, reg, arg, src, out, closed, blueprint_vars,
                   config_vars, context_vars>>

\* untag: `return self.tags[key].to_python(value[key])`
Convert ==
    /\ \E c \in Callers :
        LET call == calls[c]
            value == call.value
        IN  /\ call.pc = "convert"
            /\ calls' = [calls EXCEPT ![c] =
                    [call EXCEPT !.pc = "done",
                                 !.out = IF ~IsDict(value) THEN Raise("TypeError")
                                         ELSE to_python(UntagLookup(self, FirstOf(value)),
                                                        self, EntryValue(value.items[1]))]]
    /\ UNCHANGED <<tags, order, op, reg, arg, src, out, closed, blueprint_vars,
                   config_vars, context_vars>>

\* loads: the parse of the text, untag on every object
Parse ==
    /\ \E c \in Callers :
        LET call == calls[c]
        IN  /\ call.pc = "parse"
            /\ calls' = [calls EXCEPT ![c] =
                    [call EXCEPT !.pc = "done", !.out = loads(self, call.value)]]
    /\ UNCHANGED <<tags, order, op, reg, arg, src, out, closed, blueprint_vars,
                   config_vars, context_vars>>

\* the caller takes the outcome of its call
Finish ==
    /\ \E c \in Callers :
        /\ calls[c].pc = "done"
        /\ calls' = [calls EXCEPT ![c] = NotCalling]
    /\ UNCHANGED <<tags, order, op, reg, arg, src, out, closed, blueprint_vars,
                   config_vars, context_vars>>

NextConcurrent ==
    \/ RegisterOpen
    \/ Return
    \/ Call
    \/ ScanStep
    \/ Serialize
    \/ Lookup
    \/ Convert
    \/ Parse
    \/ Finish

SpecConcurrent == Init /\ [][NextConcurrent]_vars

(***************************************************************************)
(* Blueprint: record, record_once, register.  A function is known by its   *)
(* name, a setup state by the number of the register call that made it.    *)
(***************************************************************************)
MaxDeferred == 2
MaxRegistrations == 2
Funcs == {"f", "g"}

\* the blueprint object as its methods see it
blueprint ==
    [static_folder |-> static_folder, deferred_functions |-> deferred_functions,
     got_registered_once |-> got_registered_once, registered |-> registered,
     url_rules |-> url_rules, invoked |-> invoked]

\* class attribute; record warns, and changes nothing, when it is set on a
\* blueprint that was registered
warn_on_modifications == FALSE

\* a function as record_once's wrapper holds it, and as record is given it
wrapper(func) == [func |-> func, once |-> TRUE]
Plain(func) == [func |-> func, once |-> FALSE]

\* Blueprint.record(func)
Blueprint_record(bp, func) ==
    [bp EXCEPT !.deferred_functions = Append(@, func)]

\* Blueprint.record_once(func)
Blueprint_record_once(bp, func) == Blueprint_record(bp, wrapper(func))

\* Blueprint.make_setup_state(app, options, first_registration)
make_setup_state(bp, first_registration) ==
    [id |-> bp.registered + 1, first_registration |-> first_registration]

\* a wrapper that calls its function whatever the state says
CallDeferred_Always(deferred, k, state) ==
    [entry |-> k, func |-> deferred.func, once |-> deferred.once, state |-> state,
     ran |-> TRUE]

\* deferred(state) for the k-th deferred function: the function itself runs,
\* unless it is a wrapper called with a state that is not a first registration
CallDeferred(deferred, k, state) ==
    [entry |-> k, func |-> deferred.func, once |-> deferred.once, state |-> state,
     ran |-> (deferred.once => state.first_registration)]

\* a register that makes a setup state for every deferred function
Blueprint_register_StatePerFunction(bp, first_registration) ==
    LET n == Len(bp.deferred_functions)
    IN  [bp EXCEPT
            !.got_registered_once = TRUE,
            !.registered = @ + 1,
            !.url_rules = IF bp.static_folder
                          THEN Append(@, [endpoint |-> "static",
                                          state |-> make_setup_state(bp, first_registration)])
                          ELSE @,
            !.invoked = @ \o [k \in 1..n |->
                CallDeferred(bp.deferred_functions[k], k,
                             [id |-> bp.registered + k,
                              first_registration |-> first_registration])]]

\* Blueprint.register(app, options, first_registration)
Blueprint_register(bp, first_registration) ==
    LET state == make_setup_state(bp, first_registration)
        n == Len(bp.deferred_functions)
    IN  [bp EXCEPT
            !.got_registered_once = TRUE,
            !.registered = @ + 1,
            !.url_rules = IF bp.static_folder
                          THEN Append(@, [endpoint |-> "static", state |-> state])
                          ELSE @,
            !.invoked = @ \o [k \in 1..n |->
                CallDeferred(bp.deferred_functions[k], k, state)]]

\* the blueprint after a call
Becomes(bp) ==
    /\ static_folder' = bp.static_folder
    /\ deferred_functions' = bp.deferred_functions
    /\ got_registered_once' = bp.got_registered_once
    /\ registered' = bp.registered
    /\ url_rules' = bp.url_rules
    /\ invoked' = bp.invoked

\* bp.record(func)
Record ==
    /\ Len(deferred_functions) < MaxDeferred
    /\ \E func \in Funcs : Becomes(Blueprint_record(blueprint, Plain(func)))
    /\ UNCHANGED <<tags, order, op, reg, arg, src, out, caller_vars,
                   config_vars, context_vars>>

\* bp.record_once(func)
RecordOnce ==
    /\ Len(deferred_functions) < MaxDeferred
    /\ \E func \in Funcs : Becomes(Blueprint_record_once(blueprint, func))
    /\ UNCHANGED <<tags, order, op, reg, arg, src, out, caller_vars,
                   config_vars, context_vars>>

\* bp.register(app, options, first_registration)
RegisterBlueprint ==
    /\ registered < MaxRegistrations
    /\ \E first_registration \in BOOLEAN :
        Becomes(Blueprint_register(blueprint, first_registration))
    /\ UNCHANGED <<tags, order, op, reg, arg, src, out, caller_vars,
                   config_vars, context_vars>>

NextBlueprint ==
    \/ Record
    \/ RecordOnce
    \/ RegisterBlueprint

\* a blueprint made with or without a static folder
InitAnyBlueprint == InitSerializer /\ InitBlueprint /\ InitConfig /\ InitContexts

SpecBlueprint == InitAnyBlueprint /\ [][NextBlueprint]_vars

(***************************************************************************)
(* Config.from_mapping.  A key is a text, a value a number; a positional   *)
(* argument is a mapping (it has items()) or an iterable of pairs.         *)
(***************************************************************************)
MaxItems == 2
UpperChars == {"A", "B"}
LowerChars == {"a", "b"}

\* str.isupper(): no lower-case character and at least one upper-case one
isupper(key) ==
    /\ \E i \in 1..Len(key) : key[i] \in UpperChars
    /\ \A i \in 1..Len(key) : key[i] \notin LowerChars

\* the loop with the test of the key left out
SetEach_AnyKey(cfg, pairs) ==
    [k \in DOMAIN cfg \cup {pairs[i][1] : i \in 1..Len(pairs)} |->
        LET set == {i \in 1..Len(pairs) : pairs[i][1] = k}
        IN  IF set = {} THEN cfg[k]
            ELSE pairs[CHOOSE i \in set : \A j \in set : j <= i][2]]

\* for (key, value) in mapping: if key.isupper(): self[key] = value
RECURSIVE SetEach(_, _)
SetEach(cfg, pairs) ==
    IF pairs = <<>> THEN cfg
    ELSE LET key == Head(pairs)[1]
             value == Head(pairs)[2]
         IN  SetEach(IF isupper(key)
                     THEN [k \in DOMAIN cfg \cup {key} |-> IF k = key THEN value ELSE cfg[k]]
                     ELSE cfg,
                     Tail(pairs))

\* mapping[0].items() of a mapping, mapping[0] itself otherwise
ItemsOf(positional) == positional.pairs

\* Config.from_mapping(*mapping, **kwargs): the outcome and the config after
from_mapping(cfg, mapping, kwargs) ==
    IF Len(mapping) > 1 THEN [out |-> Raise("TypeError"), config |-> cfg]
    ELSE LET mappings == (IF Len(mapping) = 1 THEN <<ItemsOf(mapping[1])>> ELSE <<>>)
                            \o <<kwargs>>
             all == IF Len(mappings) = 2 THEN mappings[1] \o mappings[2] ELSE mappings[1]
         IN  [out |-> Ok(PyBool(TRUE)), config |-> SetEach(cfg, all)]

\* the items an application passes
ConfigKeys == {<<"A">>, <<"a">>, <<"A", "b">>, <<"_">>}
ConfigPairs == {<<k, 1>> : k \in ConfigKeys} \cup {<<(<<"A">>), 2>>}
DistinctKeys(pairs) == \A i, j \in 1..Len(pairs) : i # j => pairs[i][1] # pairs[j][1]
PairLists == SeqsUpTo(ConfigPairs, MaxItems)
Mappings == {pairs \in PairLists : DistinctKeys(pairs)}
Positionals ==
    {[items |-> TRUE, pairs |-> m] : m \in Mappings}
    \cup {[items |-> FALSE, pairs |-> l] : l \in PairLists}
One == [items |-> TRUE, pairs |-> << <<(<<"A">>), 1>> >>]
Two == [items |-> TRUE, pairs |-> << <<(<<"A">>), 2>> >>]
PositionalArgs ==
    {<<>>, <<One, Two>>, <<One, Two, One>>} \cup {<<m>> : m \in Positionals}

\* config.from_mapping(*mapping, **kwargs)
FromMapping ==
    /\ ~mapped.called
    /\ \E mapping \in PositionalArgs, kwargs \in Mappings :
        LET r == from_mapping(config, mapping, kwargs)
        IN  /\ config' = r.config
            /\ mapped' = [called |-> TRUE, mapping |-> mapping, kwargs |-> kwargs,
                          out |-> r.out]
    /\ UNCHANGED <<tags, order, op, reg, arg, src, out, caller_vars, blueprint_vars,
                   context_vars>>

\* the caller takes the outcome of from_mapping
Mapped ==
    /\ mapped.called
    /\ mapped' = NotMapped
    /\ UNCHANGED <<tags, order, op, reg, arg, src, out, caller_vars, blueprint_vars,
                   config, context_vars>>

NextConfig ==
    \/ FromMapping
    \/ Mapped

SpecConfig == Init /\ [][NextConfig]_vars

(***************************************************************************)
(* Context lookups (globals.py).  A context is known by the number it was  *)
(* made with; the stacks are those of one thread.                          *)
(***************************************************************************)
MaxContexts == 3
ReqNames == {"request", "session"}
AppNames == {"g"}

\* LocalStack.top: the last item pushed and not popped, None for no item
None == [id |-> 0]
top(stack) == IF stack = <<>> THEN None ELSE stack[Len(stack)]

\* getattr(ctx, name): the object the context holds under the name
Attr(ctx, name) == [of |-> ctx.id, name |-> name]

\* a lookup that reads the context at the bottom of the stack
_lookup_req_object_Bottom(stack, name) ==
    IF stack = <<>> THEN Raise("RuntimeError") ELSE Ok(Attr(stack[1], name))

\* _lookup_req_object(name), on _request_ctx_stack
_lookup_req_object(stack, name) ==
    IF top(stack) = None THEN Raise("RuntimeError") ELSE Ok(Attr(top(stack), name))

\* _lookup_app_object(name), on _app_ctx_stack
_lookup_app_object(stack, name) ==
    IF top(stack) = None THEN Raise("RuntimeError") ELSE Ok(Attr(top(stack), name))

\* _find_app(), on _app_ctx_stack
_find_app(stack) ==
    IF top(stack) = None THEN Raise("RuntimeError") ELSE Ok(Attr(top(stack), "app"))

\* _request_ctx_stack.push(ctx) of a new request context
PushRequest ==
    /\ pushed < MaxContexts
    /\ pushed' = pushed + 1
    /\ _request_ctx_stack' = Append(_request_ctx_stack, [id |-> pushed + 1])
    /\ looked' = NotLooked
    /\ UNCHANGED <<tags, order, op, reg, arg, src, out, caller_vars, blueprint_vars,
                   config_vars, _app_ctx_stack>>

\* _app_ctx_stack.push(ctx) of a new application context
PushApp ==
    /\ pushed < MaxContexts
    /\ pushed' = pushed + 1
    /\ _app_ctx_stack' = Append(_app_ctx_stack, [id |-> pushed + 1])
    /\ looked' = NotLooked
    /\ UNCHANGED <<tags, order, op, reg, arg, src, out, caller_vars, blueprint_vars,
                   config_vars, _request_ctx_stack>>

\* _request_ctx_stack.pop()
PopRequest ==
    /\ _request_ctx_stack # <<>>
    /\ _request_ctx_stack' = SubSeq(_request_ctx_stack, 1, Len(_request_ctx_stack) - 1)
    /\ looked' = NotLooked
    /\ UNCHANGED <<tags, order, op, reg, arg, src, out, caller_vars, blueprint_vars,
                   config_vars, _app_ctx_stack, pushed>>

\* _app_ctx_stack.pop()
PopApp ==
    /\ _app_ctx_stack # <<>>
    /\ _app_ctx_stack' = SubSeq(_app_ctx_stack, 1, Len(_app_ctx_stack) - 1)
    /\ looked' = NotLooked
    /\ UNCHANGED <<tags, order, op, reg, arg, src, out, caller_vars, blueprint_vars,
                   config_vars, _request_ctx_stack, pushed>>

\* request / session: _lookup_req_object(name)
LookupReq ==
    /\ \E name \in ReqNames :
        looked' = [fn |-> "_lookup_req_object", name |-> name,
                   out |-> _lookup_req_object(_request_ctx_stack, name)]
    /\ UNCHANGED <<tags, order, op, reg, arg, src, out, caller_vars, blueprint_vars,
                   config_vars, _request_ctx_stack, _app_ctx_stack, pushed>>

\* g: _lookup_app_object(name)
LookupApp ==
    /\ \E name \in AppNames :
        looked' = [fn |-> "_lookup_app_object", name |-> name,
                   out |-> _lookup_app_object(_app_ctx_stack, name)]
    /\ UNCHANGED <<tags, order, op, reg, arg, src, out, caller_vars, blueprint_vars,
                   config_vars, _request_ctx_stack, _app_ctx_stack, pushed>>

\* current_app: _find_app()
FindApp ==
    /\ looked' = [fn |-> "_find_app", name |-> "app", out |-> _find_app(_app_ctx_stack)]
    /\ UNCHANGED <<tags, order, op, reg, arg, src, out, caller_vars, blueprint_vars,
                   config_vars, _request_ctx_stack, _app_ctx_stack, pushed>>

NextContexts ==
    \/ PushRequest
    \/ PushApp
    \/ PopRequest
    \/ PopApp
    \/ LookupReq
    \/ LookupApp
    \/ FindApp

SpecContexts == Init /\ [][NextContexts]_vars

(***************************************************************************)
(* Properties.                                                             *)
(***************************************************************************)
IsDefault == tags = NewSerializer.tags /\ order = NewSerializer.order

\* the sole key and the sole value of a single-entry mapping
SoleKey(m) == EntryKey(m.items[1])
SoleValue(m) == EntryValue(m.items[1])
IsSingleMap(v) == IsDict(v) /\ Len(v.items) = 1

\* C1: with the default registry, dumps succeeds on every value built from
\* JSON-native scalars, string-keyed mappings, lists, tuples and byte strings,
\* and loads of the text returns the value itself, with the same types.
C1_RoundTrip ==
    /\ (op = "dumps" /\ IsDefault /\ arg \in Values) => out.err = "none"
    /\ (op = "loads" /\ IsDefault /\ src.known) => out = Ok(src.val)

C1_Witness ==
    /\ op = "loads"
    /\ src.known
    /\ src.val = PyDict(<<Entry(K_t, PyTuple(<<PyBytes(<<0, 1>>)>>))>>)
    /\ out = Ok(src.val)

\* C2, as stated: the default registry encodes {" t": [1,2,3]} as the wire
\* object {" t__": [1,2,3]}, and decoding that object gives {" t": [1,2,3]}.
C2_Original ==
    /\ (op = "dumps" /\ IsDefault /\ arg = GuardExample) => out = JsonDumps(GuardBody)
    /\ (op = "loads" /\ IsDefault /\ Ok(arg) = JsonDumps(GuardBody)) => out = Ok(GuardExample)

\* C2, amended: the default registry encodes {" t": [1,2,3]} as the wire
\* object {" di": {" t__": [1,2,3]}}, and decoding that object gives the
\* mapping {" t": [1,2,3]}, not a tuple.
C2_GuardWireForm ==
    /\ (op = "dumps" /\ IsDefault /\ arg = GuardExample) => out = JsonDumps(GuardWire)
    /\ (op = "loads" /\ IsDefault /\ Ok(arg) = JsonDumps(GuardWire)) => out = Ok(GuardExample)

C2_Witness ==
    /\ op = "loads"
    /\ src.known
    /\ src.val = GuardExample
    /\ Ok(arg) = JsonDumps(GuardWire)
    /\ out = Ok(GuardExample)

\* C3: in every registry reached by register calls, a single-entry mapping
\* whose key is a registered discriminator and whose value is JSON-native
\* decodes, after encoding, to itself.
C3_GuardRoundTrip ==
    (/\ op = "loads"
     /\ src.known
     /\ src.val \in SingleMaps
     /\ SoleKey(src.val) \in DOMAIN tags) => out = Ok(src.val)

\* C4: tag applies the tag at the lowest index whose check is true and no
\* other; a TagOrderedDict registered at position 0 is the one applied to
\* every OrderedDict, which the dict tags behind it match too.
FirstMatch(value) ==
    LET hits == {i \in 1..Len(order) : check(order[i], self, value)}
    IN  CHOOSE i \in hits : \A j \in hits : i <= j
C4_FirstMatchWins ==
    /\ (op = "tag" /\ \E i \in 1..Len(order) : check(order[i], self, arg)) =>
            out = JSONTag_tag(order[FirstMatch(arg)], self, arg)
    /\ (op = "tag" /\ order[1].cls.name = "TagOrderedDict" /\ arg.type = "odict") =>
            /\ out.err = "none"
            /\ IsSingleMap(out.val)
            /\ SoleKey(out.val) = order[1].cls.key
            /\ SoleValue(out.val).type = "list"

C4_Witness ==
    /\ op = "tag"
    /\ order[1].cls = TagOrderedDict(K_od)
    /\ arg = PyODict(<<Entry(K_t, PyInt(1))>>)
    /\ check(order[2], self, arg)
    /\ SoleKey(out.val) = K_od

\* C5: tag returns the value itself, raising nothing, when no registered
\* tag's check is true; under the default registry this is the case of every
\* number, boolean, null and plain string.
C5_UnmatchedPassThrough ==
    /\ (op = "tag" /\ \A i \in 1..Len(order) : ~check(order[i], self, arg)) => out = Ok(arg)
    /\ (op = "tag" /\ IsDefault /\ arg.type \in {"none", "bool", "int", "str"}) =>
            out = Ok(arg)

C5_Witness ==
    /\ op = "tag"
    /\ IsDefault
    /\ arg = PyStr(K_t)
    /\ out = Ok(arg)

\* C6: untag returns its argument unchanged, raising nothing, whenever the
\* argument is not a single-entry mapping.
C6_UntagPassThrough ==
    (op = "untag" /\ ~IsSingleMap(arg)) => out = Ok(arg)

\* C7: untag of a single-entry mapping {k: b} is to_python(b) of the tag the
\* discriminator mapping holds for k, and the mapping itself when k is not
\* a key of the discriminator mapping.
C7_UntagByKey ==
    (op = "untag" /\ IsSingleMap(arg)) =>
        IF SoleKey(arg) \in DOMAIN tags
        THEN out = to_python(tags[SoleKey(arg)], self, SoleValue(arg))
        ELSE out = Ok(arg)

\* the discriminator mapping and the ordered sequence disagree about the key
C7_Witness ==
    /\ op = "untag"
    /\ IsSingleMap(arg)
    /\ SoleKey(arg) = K_t
    /\ tags[K_t].cls.name = "TagOrderedDict"
    /\ \E i \in 1..Len(order) : order[i].cls = TagTuple
    /\ out.err = "none"
    /\ out.val.type = "odict"

\* C8: register fails with KeyError exactly when the class has a
\* discriminator that is already a key of the mapping and force is false; a
\* class without discriminator, or with a new one, is never rejected.
C8_DuplicateRejection ==
    [][op' = "register" =>
        /\ out'.err \in {"none", "KeyError"}
        /\ out'.err = "KeyError" <=>
              (reg'.cls.keyed /\ ~reg'.force /\ reg'.cls.key \in DOMAIN tags)]_vars

C8_Witness ==
    /\ op = "register"
    /\ reg.cls = TagOrderedDict(K_od)
    /\ ~reg.force
    /\ out.err = "KeyError"

\* C9: register with force for a discriminator already registered succeeds,
\* the mapping then holds the new tag, and the ordered sequence is the old
\* one with the new tag added: one longer, the replaced tag still in it.
Without(seq, x) == SelectSeq(seq, LAMBDA y : y # x)
C9_OverrideRegistration ==
    [][(/\ op' = "register"
        /\ reg'.force
        /\ reg'.cls.keyed
        /\ reg'.cls.key \in DOMAIN tags) =>
            LET old == tags[reg'.cls.key]
                new == tags'[reg'.cls.key]
            IN  /\ out'.err = "none"
                /\ new # old
                /\ new.cls = reg'.cls
                /\ Len(order') = Len(order) + 1
                /\ \E i \in 1..Len(order') : order'[i] = new
                /\ \E i \in 1..Len(order') : order'[i] = old
                /\ Without(order', new) = order]_vars

C9_Witness ==
    /\ op = "register"
    /\ reg.force
    /\ reg.cls = TagOrderedDict(K_t)
    /\ out.err = "none"
    /\ tags[K_t].id = Len(order)
    /\ \E i \in 1..Len(order) : order[i].cls = TagTuple

\* C10: after construction and any register calls, every tag held by the
\* discriminator mapping is stored under its own discriminator and occurs
\* exactly once in the ordered sequence; no tag without discriminator is held.
C10_RegistryInvariant ==
    \A k \in DOMAIN tags :
        /\ tags[k].cls.keyed
        /\ tags[k].cls.key = k
        /\ Cardinality({i \in 1..Len(order) : order[i] = tags[k]}) = 1

\* a rejected call after an override
C10_Witness ==
    /\ op = "register"
    /\ out.err = "KeyError"
    /\ \E i, j \in 1..Len(order) :
        /\ i # j
        /\ order[i].cls.keyed
        /\ order[j].cls.keyed
        /\ order[i].cls.key = order[j].cls.key

\* C11, as stated: a successful register with no index appends the new tag,
\* with index i the new tag is the element at index i of the sequence, and
\* the tags registered before keep their relative order, none removed.
AtIndex(lst, i, x) ==
    LET j == IF i < 0 THEN i + Len(lst) ELSE i
    IN  j \in 0..(Len(lst) - 1) /\ lst[j + 1] = x
NewTag == [id |-> Len(order) + 1, cls |-> reg'.cls]
C11_Original ==
    [][(op' = "register" /\ out'.err = "none") =>
        /\ ~reg'.index.given => order' = Append(order, NewTag)
        /\ reg'.index.given => AtIndex(order', reg'.index.at, NewTag)
        /\ Without(order', NewTag) = order]_vars

\* C11, amended: a successful register with no index appends the new tag;
\* with index i, 0 <= i <= length, the new tag is the element at index i;
\* an index beyond the end appends, a negative index i places the tag
\* before the element that was at index length + i, at the front when there
\* is none; the tags registered before keep their relative order, none
\* removed.
C11_RegisterPlacement ==
    [][(op' = "register" /\ out'.err = "none") =>
        LET n == Len(order)
            i == reg'.index.at
            at == IF ~reg'.index.given \/ i > n THEN n
                  ELSE IF i >= 0 THEN i
                  ELSE IF n + i >= 0 THEN n + i
                  ELSE 0
        IN  /\ Len(order') = n + 1
            /\ order'[at + 1] = NewTag
            /\ Without(order', NewTag) = order
            /\ \A k \in 1..n : \E m \in 1..(n + 1) : order'[m] = order[k]]_vars

\* a tag placed inside the sequence by a negative index
C11_Witness ==
    /\ op = "register"
    /\ out.err = "none"
    /\ reg.index = Index(-1)
    /\ Len(order) = Len(default_tags) + 1
    /\ order[Len(default_tags)].id = Len(order)
    /\ order[Len(order)].cls = TagDateTime

\* C12: when tag(value) dispatches to a tag with a discriminator, the result
\* is a mapping of exactly one entry, keyed by that discriminator, whose
\* value is the tag's to_json(value); when it dispatches to a transparent
\* tag (generic mapping, generic list) the result is to_json(value) itself,
\* a container of the same kind and size as the value with no entry added.
C12_WrapperShape ==
    (op = "tag" /\ \E i \in 1..Len(order) : check(order[i], self, arg)) =>
        LET t == order[FirstMatch(arg)]
            body == to_json(t, self, arg)
        IN  /\ body.err = "none"
            /\ out.err = "none"
            /\ IF t.cls.keyed
               THEN /\ out.val.type = "dict"
                    /\ Len(out.val.items) = 1
                    /\ SoleKey(out.val) = t.cls.key
                    /\ SoleValue(out.val) = body.val
               ELSE /\ out.val = body.val
                    /\ out.val.type = (IF IsDict(arg) THEN "dict" ELSE "list")
                    /\ Len(out.val.items) = Len(arg.items)
                    /\ IsDict(arg) =>
                          \A i \in 1..Len(arg.items) :
                              EntryKey(out.val.items[i]) = EntryKey(arg.items[i])

\* a wrapper around a transparent container: a tuple of the documentation
C12_Witness ==
    /\ op = "tag"
    /\ arg = PyTuple(<<PyInt(1), PyStr(T_a), PyBool(TRUE)>>)
    /\ order[FirstMatch(arg)].cls = TagTuple
    /\ out = Ok(PyDict(<<Entry(K_t, PyList(<<PyInt(1), PyStr(T_a), PyBool(TRUE)>>))>>))

\* C13: with the default registry a tuple (e1, ..., en) encodes as the
\* single-entry mapping {" t": [tag(e1), ..., tag(en)]}, elements in their
\* order, so (1, "a", True) gives {" t": [1, "a", true]}; untag of
\* {" t": [x1, ..., xn]} is the tuple (x1, ..., xn), and loads of the dumped
\* tuple is a tuple of the same length with the same elements in order.
Tuple1aTrue == PyTuple(<<PyInt(1), PyStr(T_a), PyBool(TRUE)>>)
C13_TupleEncoding ==
    /\ (op = "tag" /\ arg.type = "tuple") =>
            /\ out.err = "none"
            /\ IsSingleMap(out.val)
            /\ out.val.type = "dict"
            /\ SoleKey(out.val) = K_t
            /\ SoleValue(out.val).type = "list"
            /\ Len(SoleValue(out.val).items) = Len(arg.items)
            /\ \A i \in 1..Len(arg.items) :
                  Ok(SoleValue(out.val).items[i]) = tag(self, arg.items[i])
    /\ (op = "tag" /\ arg = Tuple1aTrue) =>
            out = Ok(PyDict(<<Entry(K_t, PyList(<<PyInt(1), PyStr(T_a), PyBool(TRUE)>>))>>))
    /\ (op = "dumps" /\ arg = Tuple1aTrue) =>
            out = Ok(Doc("object", <<>>, <<>>,
                         <<Member(K_t, Doc("array", <<>>, <<>>,
                             <<Doc("number", <<>>, <<1>>, <<>>),
                               Doc("string", T_a, <<>>, <<>>),
                               Doc("true", <<>>, <<>>, <<>>)>>))>>))
    /\ (op = "untag" /\ IsSingleMap(arg) /\ SoleKey(arg) = K_t
            /\ SoleValue(arg).type = "list") =>
            out = Ok(PyTuple(SoleValue(arg).items))
    /\ (op = "loads" /\ src.known /\ src.val.type = "tuple") =>
            /\ out.err = "none"
            /\ out.val.type = "tuple"
            /\ Len(out.val.items) = Len(src.val.items)
            /\ \A i \in 1..Len(src.val.items) : out.val.items[i] = src.val.items[i]

\* a tuple of two different elements, one of them encoded under a wrapper
C13_Witness ==
    /\ op = "loads"
    /\ src.known
    /\ src.val = PyTuple(<<PyInt(1), PyDict(<<Entry(K_t, PyBytes(<<0, 1>>))>>)>>)
    /\ out = Ok(src.val)

\* C14: a mapping that the guard does not match (and that no application tag
\* registered in front of the generic mapping tag matches) encodes to a
\* mapping with exactly the same keys, no wrapper, each value v replaced by
\* tag(v); so {"x": (1, 2)} encodes to {"x": {" t": [1, 2]}}.
GuardMatches(value) == check(tags[K_di], self, value)
PassDictIndex == CHOOSE i \in 1..Len(order) : order[i].cls = PassDict
C14_GenericMapping ==
    /\ (/\ op = "tag"
        /\ IsDict(arg)
        /\ ~GuardMatches(arg)
        /\ \A i \in 1..PassDictIndex : check(order[i], self, arg) => i = PassDictIndex) =>
            /\ out.err = "none"
            /\ out.val.type = "dict"
            /\ Len(out.val.items) = Len(arg.items)
            /\ \A i \in 1..Len(arg.items) :
                  /\ EntryKey(out.val.items[i]) = EntryKey(arg.items[i])
                  /\ Ok(EntryValue(out.val.items[i])) = tag(self, EntryValue(arg.items[i]))
    /\ (op = "tag" /\ arg = PyDict(<<Entry(T_x, PyTuple(<<PyInt(1), PyInt(2)>>))>>)) =>
            out = Ok(PyDict(<<Entry(T_x,
                        PyDict(<<Entry(K_t, PyList(<<PyInt(1), PyInt(2)>>))>>))>>))

\* the example, on a registry an application has extended
C14_Witness ==
    /\ op = "tag"
    /\ ~IsDefault
    /\ arg = PyDict(<<Entry(T_x, PyTuple(<<PyInt(1), PyInt(2)>>))>>)
    /\ out = Ok(PyDict(<<Entry(T_x, PyDict(<<Entry(K_t, PyList(<<PyInt(1), PyInt(2)>>))>>))>>))

\* C15: an application tag registered on a registry is applied by
\* tag(value) to every value it is the first match of, at the top and at any
\* depth inside mappings, lists, tuples and guarded single-entry mappings:
\* the result holds one wrapper under the tag's discriminator for each such
\* value.  (A discriminator ending in "__" is left out: the body of a guard
\* wrapper has the shape of its wrappers.)
Children(v) ==
    IF IsDict(v) THEN [i \in 1..Len(v.items) |-> EntryValue(v.items[i])]
    ELSE IF v.type \in {"list", "tuple"} THEN v.items
    ELSE <<>>
RECURSIVE Sum(_, _)
Sum(f, n) == IF n = 0 THEN 0 ELSE f[n] + Sum(f, n - 1)
\* the values inside v, v included, whose first matching tag has discriminator k
RECURSIVE Matched(_, _)
Matched(v, k) ==
    LET hits == {i \in 1..Len(order) : check(order[i], self, v)}
        here == IF hits = {} THEN 0
                ELSE LET t == order[CHOOSE i \in hits : \A j \in hits : i <= j]
                     IN  IF t.cls.keyed /\ t.cls.key = k THEN 1 ELSE 0
        c == Children(v)
    IN  here + Sum([i \in 1..Len(c) |-> Matched(c[i], k)], Len(c))
\* the single-entry mappings keyed k inside w, w included
RECURSIVE Wrappers(_, _)
Wrappers(w, k) ==
    LET here == IF w.type = "dict" /\ Len(w.items) = 1 /\ SoleKey(w) = k THEN 1 ELSE 0
        c == Children(w)
    IN  here + Sum([i \in 1..Len(c) |-> Wrappers(c[i], k)], Len(c))
C15_SameRegistryAtDepth ==
    op = "tag" =>
        \A i \in 1..Len(order) :
            (order[i].id > Len(default_tags) /\ order[i].cls.key \in {K_od, K_t}) =>
                /\ out.err = "none"
                /\ Wrappers(out.val, order[i].cls.key) = Matched(arg, order[i].cls.key)

\* two OrderedDicts, one inside the other, four levels down
C15_Witness ==
    /\ op = "tag"
    /\ order[1].cls = TagOrderedDict(K_od)
    /\ arg = PyTuple(<<PyDict(<<Entry(K_t,
                 PyTuple(<<PyODict(<<Entry(T_x, PyODict(<<>>))>>)>>))>>)>>)
    /\ Wrappers(out.val, K_od) = 2
    /\ Wrappers(out.val, K_t) = 2

\* C16: tag, untag, dumps and loads never change the ordered sequence or
\* the discriminator mapping; so once registration has stopped, every step
\* of concurrently running calls leaves the registry as it was, and each
\* call ends with the outcome the call gives when it runs alone.
Alone(kind, s, value) ==
    CASE kind = "tag" -> tag(s, value)
      [] kind = "untag" -> untag(s, value)
      [] kind = "dumps" -> dumps(s, value)
      [] kind = "loads" -> loads(s, value)
C16_RegistryReadOnly ==
    [][/\ (calls' # calls \/ op' \in Kinds) => (tags' = tags /\ order' = order)
       /\ \A c \in Callers :
            calls'[c].pc = "done" =>
                calls'[c].out = Alone(calls'[c].kind, self, calls'[c].value)]_vars

\* a call has ended while another, begun before it, is inside its loop, on
\* a registry the application has extended
C16_Witness ==
    /\ ~IsDefault
    /\ \E c, d \in Callers :
        /\ calls[c].pc = "done"
        /\ calls[c].kind = "untag"
        /\ calls[c].out.err = "none"
        /\ calls[c].out.val.type = "odict"
        /\ calls[d].pc = "scan"
        /\ calls[d].i > 1

\* C17: during a loads that succeeds, untag is called exactly once for each
\* object of the text, and for an object only after the objects nested
\* inside it; what to_python returns is not handed to untag again, so with
\* the default registry a tuple inside a tuple inside a mapping is rebuilt
\* and a guard wrapper decodes to a mapping {discriminator: x} that stays a
\* mapping.
RECURSIVE ObjectPaths(_, _)
ObjectPaths(d, path) ==
    LET child(i) == IF d.type = "object" THEN d.items[i].items[1] ELSE d.items[i]
        below == IF d.type \in {"object", "array"}
                 THEN UNION {ObjectPaths(child(i), Append(path, i)) : i \in 1..Len(d.items)}
                 ELSE {}
    IN  IF d.type = "object" THEN below \cup {path} ELSE below
Inside(p, q) == Len(p) > Len(q) /\ SubSeq(p, 1, Len(q)) = q
TupleInTupleInMapping ==
    PyDict(<<Entry(T_x, PyTuple(<<PyTuple(<<PyInt(1)>>)>>))>>)
C17_BottomUpDecode ==
    /\ (op = "loads" /\ out.err = "none") =>
            LET h == Hooks(self, arg, <<>>)
            IN  /\ \A p \in ObjectPaths(arg, <<>>) :
                        Cardinality({i \in 1..Len(h) : h[i] = p}) = 1
                /\ \A i \in 1..Len(h) : h[i] \in ObjectPaths(arg, <<>>)
                /\ \A i, j \in 1..Len(h) : Inside(h[i], h[j]) => i < j
    /\ (op = "loads" /\ IsDefault /\ Ok(arg) = JsonDumps(tag(self, TupleInTupleInMapping).val)) =>
            out = Ok(TupleInTupleInMapping)
    /\ (op = "loads" /\ IsDefault /\ Ok(arg) = JsonDumps(GuardWire)) =>
            /\ out = Ok(GuardExample)
            /\ out.val.type = "dict"
    /\ (op = "untag" /\ IsDefault /\ IsSingleMap(arg) /\ SoleKey(arg) = K_di
            /\ IsSingleMap(SoleValue(arg))) =>
            /\ out.err = "none"
            /\ out.val.type = "dict"
            /\ SoleKey(out.val) = DropLast2(SoleKey(SoleValue(arg)))

\* three objects, one inside the other, decoded innermost first
C17_Witness ==
    /\ op = "loads"
    /\ IsDefault
    /\ Ok(arg) = JsonDumps(tag(self, TupleInTupleInMapping).val)
    /\ Hooks(self, arg, <<>>) = << <<1, 1, 1>>, <<1>>, <<>> >>
    /\ out = Ok(TupleInTupleInMapping)

Segment(k) == invoked'[Len(invoked) + k]
C19_RegisterCallsDeferred ==
    [][/\ registered' # registered =>
            /\ registered' = registered + 1
            /\ Len(invoked') = Len(invoked) + Len(deferred_functions)
            /\ SubSeq(invoked', 1, Len(invoked)) = invoked
            /\ deferred_functions' = deferred_functions
            /\ \A k \in 1..Len(deferred_functions) :
                  /\ Segment(k).entry = k
                  /\ Segment(k).func = deferred_functions[k].func
                  /\ Segment(k).state = Segment(1).state
                  /\ \A i \in 1..Len(invoked) : invoked[i].state.id # Segment(k).state.id
       /\ deferred_functions' # deferred_functions =>
            /\ invoked' = invoked
            /\ registered' = registered
            /\ SubSeq(deferred_functions', 1, Len(deferred_functions)) = deferred_functions]_vars

\* a function recorded between two register calls: the first call did not
\* call it, the second called both functions in the order of recording
C19_Witness ==
    /\ registered = 2
    /\ deferred_functions = <<Plain("g"), Plain("f")>>
    /\ Len(invoked) = 3
    /\ invoked[1].func = "g" /\ invoked[1].state.id = 1
    /\ invoked[2].func = "g" /\ invoked[2].state.id = 2
    /\ invoked[3].func = "f" /\ invoked[3].state.id = 2

\* C20: in a freshly constructed registry the ordered sequence is exactly
\* guard (" di"), generic mapping, tuple (" t"), generic list, bytes (" b"),
\* markup (" m"), UUID (" u"), datetime (" d"), and the discriminator
\* mapping has exactly the keys " di", " t", " b", " m", " u", " d"; so a
\* single-entry mapping keyed by a discriminator gets the guard's wrapper and
\* a tuple the tuple tag's wrapper, not the transparent encoding.
C20_DefaultOrder ==
    IsDefault =>
        /\ [i \in 1..Len(order) |-> order[i].cls.name] =
                <<"TagDict", "PassDict", "TagTuple", "PassList", "TagBytes",
                  "TagMarkup", "TagUUID", "TagDateTime">>
        /\ [i \in 1..Len(order) |-> IF order[i].cls.keyed THEN order[i].cls.key ELSE <<>>] =
                <<K_di, <<>>, K_t, <<>>, K_b, K_m, K_u, K_d>>
        /\ DOMAIN tags = {K_di, K_t, K_b, K_m, K_u, K_d}
        /\ \A k \in DOMAIN tags : \E i \in 1..Len(order) : order[i] = tags[k]
        /\ (op = "tag" /\ IsSingleMap(arg) /\ SoleKey(arg) \in DOMAIN tags) =>
                (out.err = "none" /\ IsSingleMap(out.val) /\ SoleKey(out.val) = K_di)
        /\ (op = "tag" /\ arg.type = "tuple") =>
                (out.err = "none" /\ out.val.type = "dict" /\ SoleKey(out.val) = K_t)

\* a mapping keyed " t" that holds a tuple: the guard outside, the tuple
\* tag inside
C20_Witness ==
    /\ IsDefault
    /\ op = "tag"
    /\ arg = PyDict(<<Entry(K_t, PyTuple(<<PyInt(1)>>))>>)
    /\ out = Ok(PyDict(<<Entry(K_di, PyDict(<<Entry(K_t_guarded,
                    PyDict(<<Entry(K_t, PyList(<<PyInt(1)>>))>>))>>))>>))

\* C21: when untag meets a single-entry mapping whose key is a registered
\* discriminator and whose body the tag's to_python cannot convert, the
\* error to_python raises is the outcome of untag, and of a loads whose text
\* is that mapping: the mapping is not returned and no other error replaces
\* it.  A text that is not hexadecimal under " u" raises ValueError.
C21_DecodeErrorsSurface ==
    /\ (op = "untag" /\ IsSingleMap(arg) /\ SoleKey(arg) \in DOMAIN tags) =>
            LET r == to_python(tags[SoleKey(arg)], self, SoleValue(arg))
            IN  r.err # "none" => (out = Raise(r.err) /\ out # Ok(arg))
    /\ (op = "loads" /\ arg.type = "object" /\ Len(arg.items) = 1
            /\ arg.items[1].s \in DOMAIN tags
            /\ JsonLoads(self, arg.items[1].items[1]).err = "none") =>
            LET body == JsonLoads(self, arg.items[1].items[1]).val
                r == to_python(tags[arg.items[1].s], self, body)
            IN  r.err # "none" => out = Raise(r.err)
    /\ (op \in {"untag", "loads"} /\ tags[K_u].cls = TagUUID
            /\ Ok(arg) = (IF op = "untag" THEN Ok(PyDict(<<Entry(K_u, PyStr(T_a))>>))
                          ELSE JsonDumps(PyDict(<<Entry(K_u, PyStr(T_a))>>)))) =>
            out = Raise("ValueError")

\* a text that is not hexadecimal, tagged as a UUID, on its way through loads
C21_Witness ==
    /\ op = "loads"
    /\ Ok(arg) = JsonDumps(PyDict(<<Entry(K_u, PyStr(T_a))>>))
    /\ out = Raise("ValueError")

\* C22: when register fails because the discriminator is already registered
\* and force is false, the ordered sequence and the discriminator mapping
\* are exactly what they were before the call, whatever index was given.
C22_RejectionChangesNothing ==
    [][(op' = "register" /\ out'.err # "none") =>
        /\ reg'.cls.keyed /\ ~reg'.force /\ reg'.cls.key \in DOMAIN tags
        /\ tags' = tags
        /\ order' = order]_vars

\* a rejected call that asked for an index inside an extended sequence
C22_Witness ==
    /\ op = "register"
    /\ out.err = "KeyError"
    /\ reg.index = Index(3)
    /\ reg.cls = TagOrderedDict(K_t)
    /\ Len(order) = Len(default_tags) + 1
    /\ order[1].cls = TagOrderedDict(K_od)

\* C23: when the first tag T1 of the ordered sequence that accepts a value v
\* is no longer the tag T2 held for its discriminator (T2 was registered
\* with force and no index) and T2 accepts v too, tag(v) is T1's wrapper
\* around T1's to_json(v), and untag of that wrapper is T2's to_python of
\* the body; with T1 the documentation's OrderedDict tag and T2 a tag that
\* reads the body's items(), the value encoded does not decode.
Split(value) ==
    /\ \E i \in 1..Len(order) : check(order[i], self, value)
    /\ order[FirstMatch(value)].cls.keyed
    /\ tags[order[FirstMatch(value)].cls.key] # order[FirstMatch(value)]
    /\ check(tags[order[FirstMatch(value)].cls.key], self, value)
C23_EncodeDecodeSplit ==
    /\ (op = "tag" /\ Split(arg)) =>
            LET T1 == order[FirstMatch(arg)]
                body == to_json(T1, self, arg)
            IN  /\ body.err = "none"
                /\ out = Ok(PyDict(<<Entry(T1.cls.key, body.val)>>))
    /\ (op = "untag" /\ src.known /\ Split(src.val)) =>
            LET T1 == order[FirstMatch(src.val)]
                T2 == tags[T1.cls.key]
            IN  /\ \E i \in 1..Len(order) : i > FirstMatch(src.val) /\ order[i] = T2
                /\ arg.items[1].items[1] = to_json(T1, self, src.val).val
                /\ out = to_python(T2, self, arg.items[1].items[1])
    /\ (op = "untag" /\ src.known /\ Split(src.val) /\ src.val = OD_x
            /\ order[FirstMatch(src.val)].cls = TagOrderedDict(K_od)
            /\ tags[K_od].cls = TagItemsDict(K_od)) =>
            /\ arg = PyDict(<<Entry(K_od, PyList(<<PyList(<<PyStr(T_x), PyInt(1)>>)>>))>>)
            /\ out = Raise("AttributeError")

\* encoded by the tag at the front, refused by the tag that owns the key
C23_Witness ==
    /\ op = "untag"
    /\ src.known
    /\ src.val = OD_x
    /\ Split(src.val)
    /\ order[1].cls = TagOrderedDict(K_od)
    /\ order[Len(order)].cls = TagItemsDict(K_od)
    /\ tags[K_od] = order[Len(order)]
    /\ out = Raise("AttributeError")

\* C24: TagDict.to_python of a body {k: b, ...} is the single-entry mapping
\* {k less its last two characters: b} for the first key k of the body,
\* whether or not k ends with "__", also when k has fewer than two
\* characters, whatever other entries the body has; so untag and loads of
\* the wire object {" di": {"ab": 1}} give {"": 1}.
T_ab == <<"a", "b">>
C24_GuardDecodeUnconditional ==
    /\ (op = "untag" /\ IsSingleMap(arg) /\ SoleKey(arg) = K_di
            /\ IsDict(SoleValue(arg)) /\ Len(SoleValue(arg).items) >= 1) =>
            LET first == SoleValue(arg).items[1]
                k == EntryKey(first)
            IN  /\ out.err = "none"
                /\ out.val.type = "dict"
                /\ Len(out.val.items) = 1
                /\ SoleValue(out.val) = EntryValue(first)
                /\ Len(SoleKey(out.val)) = (IF Len(k) < 2 THEN 0 ELSE Len(k) - 2)
                /\ \A i \in 1..Len(SoleKey(out.val)) : SoleKey(out.val)[i] = k[i]
    /\ (Ok(arg) = (IF op = "untag"
                   THEN Ok(PyDict(<<Entry(K_di, PyDict(<<Entry(T_ab, PyInt(1))>>))>>))
                   ELSE JsonDumps(PyDict(<<Entry(K_di, PyDict(<<Entry(T_ab, PyInt(1))>>))>>)))
            /\ op \in {"untag", "loads"}) =>
            out = Ok(PyDict(<<Entry(<<>>, PyInt(1))>>))

\* a body of two entries, the first key with the suffix
C24_Witness ==
    /\ op = "untag"
    /\ arg = PyDict(<<Entry(K_di,
                PyDict(<<Entry(GuardKey(T_x), PyInt(1)), Entry(T_y, PyInt(1))>>))>>)
    /\ out = Ok(PyDict(<<Entry(T_x, PyInt(1))>>))

\* C25: the guard accepts a value exactly when it is a mapping of exactly
\* one entry whose key is, when tag is called, a key of the registry's
\* discriminator mapping: a plain single-entry mapping keyed by an
\* application discriminator gets the guard's wrapper once that
\* discriminator is registered and is encoded as a generic mapping before,
\* and a plain mapping of zero or several entries never gets the wrapper.
Guarded(value, wire) ==
    /\ wire.type = "dict"
    /\ Len(wire.items) = 1
    /\ SoleKey(wire) = K_di
    /\ SoleValue(wire).type = "dict"
    /\ Len(SoleValue(wire).items) = 1
    /\ SoleKey(SoleValue(wire)) = SoleKey(value) \o Suffix
C25_GuardFollowsRegistry ==
    /\ (op = "tag" /\ arg.type = "dict") =>
            /\ out.err = "none"
            /\ IF Len(arg.items) = 1 /\ SoleKey(arg) \in DOMAIN tags
               THEN Guarded(arg, out.val)
               ELSE /\ out.val.type = "dict"
                    /\ Len(out.val.items) = Len(arg.items)
                    /\ \A i \in 1..Len(arg.items) :
                          EntryKey(out.val.items[i]) = EntryKey(arg.items[i])
    /\ op = "tag" =>
            (check(tags[K_di], self, arg) <=>
                (/\ arg.type \in {"dict", "odict"}
                 /\ Len(arg.items) = 1
                 /\ \E k \in DOMAIN tags : k = EntryKey(arg.items[1])))

\* the application discriminator " od", registered: a mapping keyed by it
\* is guarded
C25_Witness ==
    /\ op = "tag"
    /\ K_od \in DOMAIN tags
    /\ arg = PyDict(<<Entry(K_od, PyInt(1))>>)
    /\ out = Ok(PyDict(<<Entry(K_di, PyDict(<<Entry(GuardKey(K_od), PyInt(1))>>))>>))

\* the same mapping before " od" is registered: encoded as it is
C25_WitnessBefore ==
    /\ op = "tag"
    /\ K_od \notin DOMAIN tags
    /\ arg = PyDict(<<Entry(K_od, PyInt(1))>>)
    /\ out = Ok(arg)

\* C26: from_mapping sets config[k] = v only for items whose key is
\* upper-case, the keyword items after those of the positional mapping (of
\* several items with one key the last one stays), leaves every other entry
\* of the config as it was and returns True; with more than one positional
\* argument it raises TypeError and leaves the config as it was.
C26_FromMapping ==
    [][mapped'.called =>
        LET mapping == mapped'.mapping
            kwargs == mapped'.kwargs
            first == IF Len(mapping) = 1 THEN mapping[1].pairs ELSE <<>>
            items == first \o kwargs
            set == {i \in 1..Len(items) :
                        /\ items[i][1] # <<>>
                        /\ \A c \in {"a", "b"} : \A n \in 1..Len(items[i][1]) : items[i][1][n] # c
                        /\ \E n \in 1..Len(items[i][1]) : items[i][1][n] \in {"A", "B"}}
        IN  IF Len(mapping) > 1
            THEN mapped'.out = Raise("TypeError") /\ config' = config
            ELSE /\ mapped'.out = Ok(PyBool(TRUE))
                 /\ DOMAIN config' = DOMAIN config \cup {items[i][1] : i \in set}
                 /\ \A k \in DOMAIN config' :
                       LET at == {i \in set : items[i][1] = k}
                       IN  IF at = {} THEN config'[k] = config[k]
                           ELSE config'[k] = items[CHOOSE i \in at : \A j \in at : j <= i][2]]_vars

\* a positional mapping and a keyword item with the same upper-case key,
\* among items with other keys: the keyword value stays
C26_Witness ==
    /\ mapped.called
    /\ mapped.mapping = << [items |-> TRUE, pairs |-> << <<(<<"A">>), 1>>, <<(<<"a">>), 1>> >>] >>
    /\ mapped.kwargs = << <<(<<"A", "b">>), 1>>, <<(<<"A">>), 2>> >>
    /\ mapped.out = Ok(PyBool(TRUE))
    /\ config = [k \in {T_B, T_b, <<"A">>} |-> IF k = <<"A">> THEN 2 ELSE 0]

\* C27: after any pushes and pops, _lookup_req_object raises RuntimeError
\* exactly when the request context stack is empty, _lookup_app_object and
\* _find_app exactly when the application context stack is empty; otherwise
\* each returns the attribute of the context pushed last and not yet
\* popped, never that of a context below it.
StackOf(fn) == IF fn = "_lookup_req_object" THEN _request_ctx_stack ELSE _app_ctx_stack
C27_ContextLookups ==
    looked.fn # "" =>
        LET stack == StackOf(looked.fn)
            n == Len(stack)
        IN  /\ looked.out.err \in {"none", "RuntimeError"}
            /\ looked.out.err = "RuntimeError" <=> n = 0
            /\ n > 0 =>
                /\ looked.out.val.of = stack[n].id
                /\ looked.out.val.name = looked.name
                /\ \A i \in 1..(n - 1) : looked.out.val.of # stack[i].id
                /\ \A i \in 1..n : stack[n].id >= stack[i].id

\* two contexts pushed, the upper popped, a third pushed: the lookup
\* returns the attribute of the third, above the first
C27_Witness ==
    /\ looked.fn = "_lookup_req_object"
    /\ _request_ctx_stack = <<[id |-> 1], [id |-> 3]>>
    /\ _app_ctx_stack = <<>>
    /\ looked.out = Ok(Attr([id |-> 3], "session"))

====
